---- MODULE Spec2Model ----
(***************************************************************************)
(* A model of the crawl-and-extract pipeline of newstrace3.0.              *)
(*                                                                         *)
(* The pipeline is modelled as four independent state machines, one per    *)
(* component, each with a specification of its own:                        *)
(*   SpecPool     scrapers/parallel_scraper.py  (worker pool)              *)
(*   SpecCollect  utils/article_collector.py, scrapers/api_scraper.py,     *)
(*                deep_scraper.py  (URL discovery)                         *)
(*   SpecExtract  scrapers/article_scraper.py,                             *)
(*                scrapers/enhanced_author_extractor.py  (extraction)      *)
(*   SpecClassify utils/article_collector.py, scrapers/section_crawler.py, *)
(*                scrapers/section_discovery.py  (URL predicates)          *)
(* Python's None is the record None; Python strings are TLA+ strings.      *)
(***************************************************************************)
EXTENDS Integers, Sequences, FiniteSets, TLC

VARIABLES
    \* ---- scrape_articles_parallel (parallel_scraper.py) ----
    article_urls,     \* the argument: a sequence of URLs
    max_workers,      \* the argument
    target_authors,   \* the argument
    pool_pc,          \* "loop", "gather", "done" or "raised"
    i,                \* the loop variable of the batch loop (0-based offset)
    semaphore,        \* the value of asyncio.Semaphore(max_workers)
    worker_pc,        \* per task of the current batch: "waiting", "running", "done"
    results,          \* per task of the current batch: what worker() returned
    all_data,         \* the list being returned
    unique_authors,   \* the set shared by all workers
    scraped,          \* history: per URL position, what scrape_journalist_info did
    \* ---- scrape_journalist_info (article_scraper.py) ----
    page,             \* the fetched article page: what each DOM query finds
    extract_pc,       \* "fetch", "extracted" or "done"
    author_info,      \* the dict extract_author_comprehensive returned
    record,           \* the return value of scrape_journalist_info
    \* ---- collect_article_urls, try_api_scraping, run_deep_intelligence ----
    website_url,      \* the argument
    max_articles,     \* the argument
    collect_pc,       \* "api", "crawl", "returned_api" (line 39), "returned_crawl" (line 53)
    api_pc,           \* try_api_scraping: "probe", "paginate" or "returned"
    api_index,        \* the position of api_url in find_api_endpoints(website_url)
    api_page,         \* params['page']
    all_articles,     \* the list try_api_scraping builds
    api_data,         \* the return value of try_api_scraping: None or [articles |-> list]
    found_api,        \* output: "Found API" has been printed (line 50)
    pages_to_visit,   \* crawl_sections_parallel: the queue
    visited_pages,    \* crawl_sections_parallel
    crawl_article_urls, \* crawl_sections_parallel: article_urls
    failed_urls,      \* crawl_sections_parallel
    crawled,          \* the list crawl_sections_parallel returned
    navigated,        \* history: the URLs crawl_sections_parallel passed to page.goto
    url_list,         \* the return value of collect_article_urls
    deep_pc,          \* run_deep_intelligence: "rss", "sections", "list", "scrape", "raised"
    all_article_urls, \* run_deep_intelligence
    article_list,     \* run_deep_intelligence
    \* ---- the URL predicates ----
    url,              \* the URL being classified
    base_url,         \* the site it was found on
    collector_verdict, \* is_article_url / is_section_page of article_collector.py
    crawler_verdict,  \* is_article_url of section_crawler.py / is_section_url
    \* ---- aggregate_journalist_data (aggregator.py) and its caller ----
    articles_data,    \* the record list (all_articles of aggregate_journalist_data)
    author_profiles,  \* the enrichment map: None or [dict |-> author -> details]
    hash_seed,        \* the hash seed of the process, as the iteration order of a set
    google_profiles,  \* what enrich_journalists_batch returned (deep_scraper.py 88)
    agg_pc,           \* "enrich", "aggregate", "once", "twice"
    by_author,        \* the groups of the last call
    comprehensive_profiles, \* the return value of the first call
    profiles_again,   \* the return value of a second call
    \* fetch
    fetch_call,       \* the function that runs and its arguments
    fetch_pc,         \* "entry", "launched", "returned", "raised"
    browser,          \* "none", "open", "closed"
    fetch_result,     \* the return value of the call
    failed_loads,     \* the navigations of the call that raised
    pattern_index,    \* get_author_profile_page: the pattern tried next
    section_pages_to_visit,\* crawl_section_deeply: the queue of pages
    section_visited_pages,\* crawl_section_deeply
    section_article_urls,\* crawl_section_deeply: article_urls
    section_page_count, \* crawl_section_deeply
    section_navigated, \* history: the URLs crawl_section_deeply passed to page.goto
    \* clean
    candidate,        \* the name given to clean_author_name
    clean_pc,         \* "call", "done"
    cleaned_name,     \* what clean_author_name returned
    \* social
    anchors,          \* the href values of the anchors of the scope, in document order
    link_index,       \* the anchor parsed next
    social,           \* the dict extract_social_media builds
    social_pc,        \* "loop", "returned"
    \* sequential
    seq_article_urls, \* scrape_all_articles: article_urls
    seq_pages,        \* what scrape_journalist_info does for each URL position
    seq_pc,           \* "idle", "loop", "finish" or "returned"
    seq_index,        \* number of URLs the for loop has taken
    seq_all_data,     \* scrape_all_articles: all_data
    seq_unique_authors,\* scrape_all_articles: unique_authors
    failed,           \* scrape_all_articles: failed
    fetched,          \* the URL positions scrape_journalist_info was called for, in call order
    \* gather
    gather_max_articles,\* run_deep_intelligence: max_articles
    gather_all_article_urls,\* run_deep_intelligence: all_article_urls (the RSS URLs at first)
    top_sections,     \* what discover_all_sections returned, cut to sections[:5]
    tasks,            \* per section crawl: the locals of crawl_section_deeply and "running" or "returned"
    gather_pc,        \* "idle", "gather" (line 45) or "merged" (after line 50)
    task_loads,       \* history: the page.goto calls of all section crawls, as <<task, URL>>
    \* pipeline
    pipeline,         \* the pipeline that runs and its options
    pipe_max_articles,\* the argument max_articles
    pipe_pc,          \* "discover", "scrape", "profiles", "google", "aggregate", "returned", "returned_none"
    pipe_urls,        \* the URL list URL discovery returned (article_list / urls)
    pipe_fetch,       \* per URL position: "pending", "running" or what scrape_journalist_info gave
    pipe_articles_data,\* articles_data, once the worker pool returned
    pipe_unique_authors,\* unique_authors
    profile_tasks,    \* per author of unique_authors[:50]: [pc, details] of get_profile
    pipe_profiles,    \* author_profiles / results['profiles']
    pipe_events       \* history: the steps of the pipeline in the order they happened

poolVars == <<article_urls, max_workers, target_authors, pool_pc, i, semaphore,
              worker_pc, results, all_data, unique_authors, scraped>>

extractVars == <<page, extract_pc, author_info, record>>

apiVars == <<api_pc, api_index, api_page, all_articles, api_data, found_api>>

crawlVars == <<pages_to_visit, visited_pages, crawl_article_urls, failed_urls,
               crawled, navigated>>

deepVars == <<deep_pc, all_article_urls, article_list>>

collectVars == <<website_url, max_articles, collect_pc, apiVars, crawlVars,
                 url_list, deepVars>>

classifyVars == <<url, base_url, collector_verdict, crawler_verdict>>

aggregateVars == <<articles_data, author_profiles, google_profiles, hash_seed, agg_pc, by_author,
                   comprehensive_profiles, profiles_again>>

fetchVars == <<fetch_call, fetch_pc, browser, fetch_result, failed_loads,
               pattern_index, section_pages_to_visit, section_visited_pages,
               section_article_urls, section_page_count, section_navigated>>

cleanVars == <<candidate, clean_pc, cleaned_name>>

socialVars == <<anchors, link_index, social, social_pc>>

sequentialVars == <<seq_article_urls, seq_pages, seq_pc, seq_index,
                    seq_all_data, seq_unique_authors, failed, fetched>>

gatherVars == <<gather_max_articles, gather_all_article_urls, top_sections,
                tasks, gather_pc, task_loads>>

pipelineVars == <<pipeline, pipe_max_articles, pipe_pc, pipe_urls, pipe_fetch,
                  pipe_articles_data, pipe_unique_authors, profile_tasks,
                  pipe_profiles, pipe_events>>

vars == <<poolVars, extractVars, collectVars, classifyVars, aggregateVars, fetchVars, cleanVars, socialVars, sequentialVars, gatherVars, pipelineVars>>

\* the variables each component leaves alone
nonPoolVars == <<extractVars, collectVars, classifyVars, aggregateVars, fetchVars, cleanVars, socialVars, sequentialVars, gatherVars, pipelineVars>>
nonExtractVars == <<poolVars, collectVars, classifyVars, aggregateVars, fetchVars, cleanVars, socialVars, sequentialVars, gatherVars, pipelineVars>>
nonCollectVars == <<poolVars, extractVars, classifyVars, aggregateVars, fetchVars, cleanVars, socialVars, sequentialVars, gatherVars, pipelineVars>>
nonClassifyVars == <<poolVars, extractVars, collectVars, aggregateVars, fetchVars, cleanVars, socialVars, sequentialVars, gatherVars, pipelineVars>>
nonAggregateVars == <<poolVars, extractVars, collectVars, classifyVars, fetchVars, cleanVars, socialVars, sequentialVars, gatherVars, pipelineVars>>
nonFetchVars == <<poolVars, extractVars, collectVars, classifyVars, aggregateVars, cleanVars, socialVars, sequentialVars, gatherVars, pipelineVars>>
nonCleanVars == <<poolVars, extractVars, collectVars, classifyVars, aggregateVars, fetchVars, socialVars, sequentialVars, gatherVars, pipelineVars>>
nonSocialVars == <<poolVars, extractVars, collectVars, classifyVars, aggregateVars, fetchVars, cleanVars, sequentialVars, gatherVars, pipelineVars>>
nonSequentialVars == <<poolVars, extractVars, collectVars, classifyVars, aggregateVars, fetchVars, cleanVars, socialVars, gatherVars, pipelineVars>>
nonGatherVars == <<poolVars, extractVars, collectVars, classifyVars, aggregateVars, fetchVars, cleanVars, socialVars, sequentialVars, pipelineVars>>
nonPipelineVars == <<poolVars, extractVars, collectVars, classifyVars, aggregateVars, fetchVars, cleanVars, socialVars, sequentialVars, gatherVars>>

None == [none |-> TRUE]

Min(a, b) == IF a < b THEN a ELSE b

Range(f) == {f[x] : x \in DOMAIN f}

(***************************************************************************)
(* scrapers/parallel_scraper.py                                            *)
(***************************************************************************)

\* Bounds of the model.
MaxUrls == 5
MaxWorkers == 2
MaxTarget == 2
\* batch_size is 100 in the source (parallel_scraper.py:34); the model checks
\* the same loop with a small batch so that workers of one batch interleave
\* and several batches happen.
BatchSize == 2

Authors == {"Ann Lee", "Bo Chen"}

\* What one scrape_journalist_info call can do: raise, return None, or
\* return a record whose author is a name or "Unknown".
ScrapeOutcomes == {"raise", "None", "Unknown"} \cup Authors

batch_size == BatchSize

\* article_urls[i:i+batch_size], as the positions (1-based) of its URLs
batch_positions(k) == (k + 1) .. Min(k + batch_size, Len(article_urls))

\* asyncio.Semaphore.locked(): no permit is left
semaphore_locked_free(value) == FALSE
semaphore_locked(value) == value <= 0

\* the bare "except: return None" of worker()
worker_catches_never == FALSE
worker_catches == TRUE

\* "if len(unique_authors) >= target_authors: break"
early_stop_strict(count, target) == count > target
early_stop(count, target) == count >= target

\* "unique_authors.add(data['author'])": the test and the add run without an
\* await in between, so no other task runs between them
add_author_overwrites(authors, author) == {author}
add_author(authors, author) == authors \cup {author}

\* leaving "async with semaphore" through an exception releases the permit
exit_with_exception_keeps_permit(value) == value
exit_with_exception(value) == value + 1

\* "[r for r in results if r]" listed in the order the tasks completed
\* rather than in task order (here: last task first)
RECURSIVE truthy_results_last_first(_, _)
truthy_results_last_first(res, positions) ==
    IF positions = {} THEN <<>>
    ELSE LET u == CHOOSE x \in positions : \A y \in positions : x >= y
         IN  (IF res[u] # None THEN <<res[u]>> ELSE <<>>)
             \o truthy_results_last_first(res, positions \ {u})

\* the record scrape_journalist_info returns for the URL at position u
\* (only the fields the pool reads)
pool_record(u, author) == [url |-> article_urls[u], author |-> author]

\* "[r for r in results if r]", in task order
RECURSIVE truthy_results(_, _)
truthy_results(res, positions) ==
    IF positions = {} THEN <<>>
    ELSE LET u == CHOOSE x \in positions : \A y \in positions : x <= y
         IN  (IF res[u] # None THEN <<res[u]>> ELSE <<>>)
             \o truthy_results(res, positions \ {u})

PoolInit ==
    /\ \E n \in 0..MaxUrls : article_urls = [u \in 1..n |-> u]
    /\ max_workers \in 1..MaxWorkers
    /\ target_authors \in 1..MaxTarget
    /\ pool_pc = "loop"
    /\ i = 0
    /\ semaphore = max_workers
    /\ worker_pc = <<>>
    /\ results = <<>>
    /\ all_data = <<>>
    /\ unique_authors = {}
    /\ scraped = [u \in 1..Len(article_urls) |-> "pending"]

PoolIdle ==
    /\ article_urls = <<>>
    /\ max_workers = 1
    /\ target_authors = 1
    /\ pool_pc = "idle"
    /\ i = 0
    /\ semaphore = 1
    /\ worker_pc = <<>>
    /\ results = <<>>
    /\ all_data = <<>>
    /\ unique_authors = {}
    /\ scraped = <<>>

\* for i in range(0, len(article_urls), batch_size): tasks = [...];
\* asyncio.gather(*tasks) schedules one task per URL of the batch
StartBatch ==
    /\ pool_pc = "loop"
    /\ i < Len(article_urls)
    /\ worker_pc' = [u \in batch_positions(i) |-> "waiting"]
    /\ results' = [u \in batch_positions(i) |-> None]
    /\ pool_pc' = "gather"
    /\ UNCHANGED <<article_urls, max_workers, target_authors, i, semaphore,
                   all_data, unique_authors, scraped>>
    /\ UNCHANGED nonPoolVars

\* "async with semaphore": a task enters when a permit is left
WorkerAcquire(u) ==
    /\ pool_pc = "gather"
    /\ worker_pc[u] = "waiting"
    /\ ~semaphore_locked(semaphore)
    /\ semaphore' = semaphore - 1
    /\ worker_pc' = [worker_pc EXCEPT ![u] = "running"]
    /\ UNCHANGED <<article_urls, max_workers, target_authors, pool_pc, i,
                   results, all_data, unique_authors, scraped>>
    /\ UNCHANGED nonPoolVars

\* scrape_journalist_info returned a record or None; the task leaves the
\* "async with" block, which releases the permit
WorkerReturn(u, out) ==
    /\ pool_pc = "gather"
    /\ worker_pc[u] = "running"
    /\ out \in ScrapeOutcomes \ {"raise"}
    /\ scraped' = [scraped EXCEPT ![u] = out]
    /\ unique_authors' = IF out \notin {"None", "Unknown"}
                         THEN add_author(unique_authors, out)
                         ELSE unique_authors
    /\ results' = [results EXCEPT ![u] =
                      IF out = "None" THEN None ELSE pool_record(u, out)]
    /\ semaphore' = semaphore + 1
    /\ worker_pc' = [worker_pc EXCEPT ![u] = "done"]
    /\ UNCHANGED <<article_urls, max_workers, target_authors, pool_pc, i,
                   all_data>>
    /\ UNCHANGED nonPoolVars

\* scrape_journalist_info raised: the bare except of worker() turns it into
\* None; without it the exception leaves the task and gather re-raises it
WorkerRaise(u) ==
    /\ pool_pc = "gather"
    /\ worker_pc[u] = "running"
    /\ scraped' = [scraped EXCEPT ![u] = "raise"]
    /\ results' = [results EXCEPT ![u] = None]
    /\ semaphore' = exit_with_exception(semaphore)
    /\ worker_pc' = [worker_pc EXCEPT ![u] = "done"]
    /\ pool_pc' = IF worker_catches THEN pool_pc ELSE "raised"
    /\ UNCHANGED <<article_urls, max_workers, target_authors, i, all_data,
                   unique_authors>>
    /\ UNCHANGED nonPoolVars

\* gather returned: extend all_data, then the early-stop test
EndBatch ==
    /\ pool_pc = "gather"
    /\ \A u \in DOMAIN worker_pc : worker_pc[u] = "done"
    /\ all_data' = all_data \o truthy_results(results, DOMAIN results)
    /\ IF early_stop(Cardinality(unique_authors), target_authors)
       THEN pool_pc' = "done" /\ i' = i
       ELSE pool_pc' = "loop" /\ i' = i + batch_size
    /\ worker_pc' = <<>>
    /\ results' = <<>>
    /\ UNCHANGED <<article_urls, max_workers, target_authors, semaphore,
                   unique_authors, scraped>>
    /\ UNCHANGED nonPoolVars

\* the range of the batch loop is exhausted: return all_data
PoolReturn ==
    /\ pool_pc = "loop"
    /\ i >= Len(article_urls)
    /\ pool_pc' = "done"
    /\ UNCHANGED <<article_urls, max_workers, target_authors, i, semaphore,
                   worker_pc, results, all_data, unique_authors, scraped>>
    /\ UNCHANGED nonPoolVars

PoolNext ==
    \/ StartBatch
    \/ \E u \in DOMAIN worker_pc : WorkerAcquire(u)
    \/ \E u \in DOMAIN worker_pc, out \in ScrapeOutcomes : WorkerReturn(u, out)
    \/ \E u \in DOMAIN worker_pc : WorkerRaise(u)
    \/ EndBatch
    \/ PoolReturn

(***************************************************************************)
(* Claims about the worker pool (checked under SpecPool)                   *)
(***************************************************************************)

\* the tasks that are inside scrape_journalist_info right now
InProgress == {u \in DOMAIN worker_pc : worker_pc[u] = "running"}

\* C1: at every moment and under every interleaving of the workers, the
\* number of scrape_journalist_info calls in progress is at most max_workers.
C1_AtMostMaxWorkersInProgress == Cardinality(InProgress) <= max_workers

\* max_workers calls are in progress and another task waits for a permit
C1_Witness ==
    /\ Cardinality(InProgress) = max_workers
    /\ \E u \in DOMAIN worker_pc : worker_pc[u] = "waiting"

\* the URL positions whose task has been submitted / has finished
Submitted == {u \in DOMAIN scraped : scraped[u] # "pending"} \cup DOMAIN worker_pc
Processed == {u \in DOMAIN scraped : scraped[u] # "pending"}

NumBatches == (Len(article_urls) + batch_size - 1) \div batch_size

\* the distinct non-"Unknown" authors of the records of batches 1..b
AuthorsThroughBatch(b) ==
    {scraped[u] : u \in {v \in DOMAIN scraped :
                            v <= b * batch_size /\ scraped[v] \in Authors}}

\* the batches by whose end the target_authors-th distinct author has appeared
TargetBatches ==
    {b \in 1..NumBatches : Cardinality(AuthorsThroughBatch(b)) >= target_authors}

FirstTargetBatch == CHOOSE b \in TargetBatches : \A c \in TargetBatches : b <= c

\* C2: for target_authors = N >= 1 the pool stops submitting batches at or
\* after the batch in which the N-th distinct non-"Unknown" author first
\* appears and submits no URL beyond one further full batch; if the target
\* is never reached every URL is processed.
C2_EarlyStopWithinOneBatch ==
    /\ TargetBatches # {} =>
          Submitted \subseteq 1 .. ((FirstTargetBatch + 1) * batch_size)
    /\ (pool_pc = "done" /\ TargetBatches # {}) =>
          1 .. Min(FirstTargetBatch * batch_size, Len(article_urls))
              \subseteq Processed
    /\ (pool_pc = "done" /\ TargetBatches = {}) =>
          Processed = 1 .. Len(article_urls)

\* the pool returned early: the target was reached and URLs were left out
C2_Witness ==
    /\ pool_pc = "done"
    /\ TargetBatches # {}
    /\ Processed # 1 .. Len(article_urls)
    /\ Len(all_data) >= 2

\* the URL positions whose scrape_journalist_info call returned a record
Succeeded == {u \in DOMAIN scraped : scraped[u] \in Authors \cup {"Unknown"}}

\* C3: failures never make scrape_articles_parallel raise or lose other
\* results: between batches and at the return, all_data holds exactly one
\* record for every URL of a processed batch whose call succeeded, and no
\* record for a URL whose call raised or returned None.
C3_FailuresOnlySkipTheirUrl ==
    /\ pool_pc # "raised"
    /\ pool_pc \in {"loop", "done"} =>
          /\ Len(all_data) = Cardinality(Succeeded)
          /\ \A u \in Succeeded :
                \E k \in 1..Len(all_data) :
                    all_data[k] = pool_record(u, scraped[u])

\* a finished run in which one call raised, one returned None and one
\* returned a record
C3_Witness ==
    /\ pool_pc = "done"
    /\ \E u, v, w \in DOMAIN scraped :
          /\ scraped[u] = "raise"
          /\ scraped[v] = "None"
          /\ scraped[w] \in Authors
          /\ u < w

\* C26: the author set shared by the concurrent workers loses no insert
\* under any interleaving: at every batch boundary unique_authors is exactly
\* the set of author values other than "Unknown" of the records collected so
\* far in all_data.
C26_AuthorSetLosesNoInsert ==
    pool_pc \in {"loop", "done"} =>
        unique_authors =
            {all_data[k].author : k \in 1..Len(all_data)} \ {"Unknown"}

\* a batch ended whose two workers ran at the same time and inserted
\* different authors, next to a record of an "Unknown" author
C26_Witness ==
    /\ pool_pc \in {"loop", "done"}
    /\ max_workers = 2
    /\ \E u \in DOMAIN scraped :
          /\ u + 1 \in DOMAIN scraped
          /\ u % batch_size = 1
          /\ scraped[u] \in Authors
          /\ scraped[u + 1] \in Authors \ {scraped[u]}
    /\ \E k \in 1..Len(all_data) : all_data[k].author = "Unknown"
    /\ Cardinality(unique_authors) = 2

\* the batches started so far
BatchesStarted == i \div batch_size + (IF pool_pc = "gather" THEN 1 ELSE 0)

\* C28: for max_workers >= 1, when every scrape_journalist_info call
\* eventually returns or raises, scrape_articles_parallel terminates, and it
\* starts at most ceil(len(article_urls) / batch_size) batches; a worker that
\* fails gives its permit back, so no later worker waits forever.
C28_PoolTerminates ==
    /\ <>(pool_pc = "done")
    /\ [](BatchesStarted <= NumBatches)
    /\ [](pool_pc \in {"loop", "done"} => semaphore = max_workers)

\* a task waits for the only permit after an earlier worker of the run failed
C28_Witness ==
    /\ pool_pc = "gather"
    /\ max_workers = 1
    /\ \E u, v \in DOMAIN scraped :
          /\ scraped[u] = "raise"
          /\ v \in DOMAIN worker_pc
          /\ worker_pc[v] = "waiting"
    /\ BatchesStarted = NumBatches
    /\ NumBatches >= 2

\* the position at which the URL of a record was submitted
PositionOf(rec) ==
    CHOOSE u \in DOMAIN article_urls : article_urls[u] = rec.url

\* C29: whatever order the workers complete in, the records are kept in input
\* URL order: a finished task's record sits at its own position of the gather
\* result with the URL submitted there, and all_data holds at most one record
\* per submitted position, earlier positions before later ones.
C29_RecordsInInputOrder ==
    /\ \A u \in DOMAIN results :
          results[u] # None => results[u].url = article_urls[u]
    /\ \A k \in 1..Len(all_data) :
          /\ all_data[k].url \in Range(article_urls)
          /\ scraped[PositionOf(all_data[k])] = all_data[k].author
          /\ \A j \in 1..(k - 1) :
                PositionOf(all_data[j]) < PositionOf(all_data[k])

\* the worker of a later URL returned its record while the worker of an
\* earlier URL of the same batch is still running, after a first batch whose
\* records are in all_data
C29_Witness ==
    /\ pool_pc = "gather"
    /\ Len(all_data) >= 2
    /\ \E u, v \in DOMAIN worker_pc :
          /\ u < v
          /\ worker_pc[u] = "running"
          /\ worker_pc[v] = "done"
          /\ results[v] # None

(***************************************************************************)
(* Python str operations, on TLA+ strings                                  *)
(***************************************************************************)

\* Python's None where a str is expected; no text of the model equals it
NoneStr == "<None>"

\* a value that is neither None nor a str (a JSON list or number)
NonStr == "<non-str>"

\* bool(s) of an optional str
truthy(s) == s # NoneStr /\ s # ""

Char(s, k) == SubSeq(s, k, k)

ToLower == [A |-> "a", B |-> "b", C |-> "c", D |-> "d", E |-> "e", F |-> "f",
            G |-> "g", H |-> "h", I |-> "i", J |-> "j", K |-> "k", L |-> "l",
            M |-> "m", N |-> "n", O |-> "o", P |-> "p", Q |-> "q", R |-> "r",
            S |-> "s", T |-> "t", U |-> "u", V |-> "v", W |-> "w", X |-> "x",
            Y |-> "y", Z |-> "z"]

\* c.isupper() of one character
isupper(c) == c \in DOMAIN ToLower

\* c.isspace() of one character
isspace(c) == c = " "

\* s.lower()
RECURSIVE lower(_)
lower(s) ==
    IF Len(s) = 0 THEN ""
    ELSE (IF isupper(Char(s, 1)) THEN ToLower[Char(s, 1)] ELSE Char(s, 1))
         \o lower(SubSeq(s, 2, Len(s)))

\* "sub in s"
contains(s, sub) ==
    \E k \in 0 .. (Len(s) - Len(sub)) : SubSeq(s, k + 1, k + Len(sub)) = sub

\* s.startswith(pre)
startswith(s, pre) == Len(s) >= Len(pre) /\ SubSeq(s, 1, Len(pre)) = pre

\* s.split(): the whitespace-separated tokens of s
RECURSIVE split_from(_, _, _)
split_from(s, k, cur) ==
    IF k > Len(s) THEN (IF cur = "" THEN <<>> ELSE <<cur>>)
    ELSE IF isspace(Char(s, k))
         THEN (IF cur = "" THEN <<>> ELSE <<cur>>) \o split_from(s, k + 1, "")
         ELSE split_from(s, k + 1, cur \o Char(s, k))

split(s) == split_from(s, 1, "")

\* ' '.join(tokens)
RECURSIVE join(_)
join(tokens) ==
    IF Len(tokens) = 0 THEN ""
    ELSE IF Len(tokens) = 1 THEN tokens[1]
    ELSE tokens[1] \o " " \o join(Tail(tokens))

\* s.lstrip()
RECURSIVE lstrip(_)
lstrip(s) ==
    IF Len(s) > 0 /\ isspace(Char(s, 1)) THEN lstrip(SubSeq(s, 2, Len(s))) ELSE s

(***************************************************************************)
(* scrapers/enhanced_author_extractor.py: clean_author_name                *)
(***************************************************************************)

\* the alternatives of the prefix pattern, lower-cased (the pattern is
\* matched with re.I)
role_prefixes == <<"by", "written by", "posted by", "author:", "reported by">>

\* '^(By|Written by|...)\s+' matches at the start of name with alternative pre
prefix_matches(name, pre) ==
    /\ Len(name) > Len(pre)
    /\ lower(SubSeq(name, 1, Len(pre))) = pre
    /\ isspace(Char(name, Len(pre) + 1))

\* re.sub(r'^(By|Written by|Posted by|Author:|Reported by)\s+', '', name,
\*        flags=re.I)
strip_role_prefix(name) ==
    IF \E k \in 1..Len(role_prefixes) : prefix_matches(name, role_prefixes[k])
    THEN LET k == CHOOSE j \in 1..Len(role_prefixes) :
                      /\ prefix_matches(name, role_prefixes[j])
                      /\ \A h \in 1..(j - 1) : ~prefix_matches(name, role_prefixes[h])
         IN  lstrip(SubSeq(name, Len(role_prefixes[k]) + 1, Len(name)))
    ELSE name

\* r'\S+@\S+' matches inside a run of non-space characters iff the run has
\* an "@" that is neither its first nor its last character; the match then
\* starts at the start of the run and, being greedy, ends at its end
is_email_run(tok) == \E k \in 2 .. (Len(tok) - 1) : Char(tok, k) = "@"

\* re.sub(r'\S+@\S+', '', name)
RECURSIVE sub_emails_from(_, _, _)
sub_emails_from(s, k, cur) ==
    IF k > Len(s) THEN (IF is_email_run(cur) THEN "" ELSE cur)
    ELSE IF isspace(Char(s, k))
         THEN (IF is_email_run(cur) THEN "" ELSE cur) \o Char(s, k)
              \o sub_emails_from(s, k + 1, "")
         ELSE sub_emails_from(s, k + 1, cur \o Char(s, k))

sub_emails(name) == sub_emails_from(name, 1, "")

clean_bad_terms == {"news desk", "editorial", "staff writer", "news team", "bureau",
                    "unknown", "anonymous", "correspondent", "wire service"}

\* clean_author_name(name): the cleaned name, or None when it is rejected
clean_author_name(name) ==
    IF ~truthy(name) THEN NoneStr
    ELSE LET stripped == strip_role_prefix(name)
             no_email == sub_emails(stripped)
             cleaned == join(split(no_email))
         IN  IF cleaned = "" \/ Len(cleaned) < 3 THEN NoneStr
             ELSE IF Len(cleaned) > 50 \/ Len(split(cleaned)) > 5 THEN NoneStr
             ELSE IF \E term \in clean_bad_terms : contains(lower(cleaned), term)
                  THEN NoneStr
             ELSE IF ~\E k \in 1..Len(cleaned) : isupper(Char(cleaned, k))
                  THEN NoneStr
             ELSE cleaned

(***************************************************************************)
(* scrapers/article_scraper.py: validate_author                            *)
(***************************************************************************)

validate_bad_terms == {"news", "editor", "team", "desk", "report", "staff", "bureau"}

validate_author_no_title_check(author, title) ==
    IF ~truthy(author) THEN "Unknown"
    ELSE IF \E term \in validate_bad_terms : contains(lower(author), term)
         THEN "Unknown"
    ELSE IF Len(split(author)) > 5 THEN "Unknown"
    ELSE author

\* validate_author(author, title)
validate_author(author, title) ==
    IF ~truthy(author) THEN "Unknown"
    ELSE IF \E term \in validate_bad_terms : contains(lower(author), term)
         THEN "Unknown"
    ELSE IF Len(split(author)) > 5 THEN "Unknown"
    ELSE IF truthy(title) /\ lower(author) = lower(title) THEN "Unknown"
    ELSE author

(***************************************************************************)
(* The article page: what each DOM query of the extractors finds           *)
(***************************************************************************)

\* Bound of the model: how many author-bearing elements (byline slots and
\* JSON-LD scripts) one page has.
MaxFilled == 3

\* the texts a byline element can hold
Texts == {"Jane Smith", "By Al Roe", "jane smith"}

\* what r'By\s+([A-Z][a-z]+(?:\s+[A-Z][a-z]+){1,3})' can capture
ByTexts == {"Jane Smith", "Al Roe"}

Titles == {NoneStr, "JANE SMITH", "Big Story"}

\* the selectors of strategy 3, in the order of the source
strategy3_selectors ==
    <<".byline", ".author-name", ".author", ".contributor-name", ".writer-name",
      "[itemprop=author]", ".article-author", ".post-author", ".entry-author",
      ".story-byline">>

\* the selectors of extract_author, in the order of the source; the element
\* with rel="author" is the anchor strategy 2 finds
legacy_selectors ==
    <<".author", ".byline", ".contributor", "[itemprop=author]", ".article-author",
      "rel", ".writer-name">>

\* One slot per query: "box" is the text of the name element of the author
\* box, "rel" of the a[rel=author] anchor, "meta_author"/"meta_article" the
\* content of the meta tags, "by" the capture of the "By <Name>" pattern in
\* the first paragraph that matches, "contributor" the text of the name
\* element of the contributor container; the others are CSS selectors.
AllSlots ==
    {"box", "rel", "meta_author", "meta_article", "by", "contributor"}
        \cup Range(strategy3_selectors) \cup Range(legacy_selectors)

\* the slots the pages of the model fill
ProbedSlots ==
    {"box", "rel", ".byline", ".author", "meta_author", "meta_article", "by",
     "contributor"}

SlotTexts(slot) == IF slot = "by" THEN ByTexts ELSE Texts

\* A JSON-LD script: "invalid" (json.loads raises), "no_author" (a dict
\* without "author"), "str" (author is a string), "dict" (author is an
\* object with a name; tail_raises: reading one of its other keys raises,
\* as "description": null does), "dict_nonstr" (the name is not a string).
Script(kind, name, tail_raises) ==
    [kind |-> kind, name |-> name, tail_raises |-> tail_raises]

Scripts ==
    {Script("invalid", NoneStr, FALSE), Script("no_author", NoneStr, FALSE),
     Script("str", "News Desk", FALSE), Script("str", "Al Roe", FALSE),
     Script("dict", "Jane Smith", FALSE), Script("dict", "Jane Smith", TRUE),
     Script("dict_nonstr", NonStr, FALSE)}

ScriptLists ==
    {<<>>} \cup {<<a>> : a \in Scripts} \cup {<<a, b>> : a, b \in Scripts}

\* the role, bio, e-mail and twitter link a page with extras carries
ExtraRole == "Reporter"
ExtraBio == "Covers politics"
ExtraEmail == "jane@site.org"
ExtraSocial == {[platform |-> "twitter", handle |-> "@janedoe",
                 url |-> "https://twitter.com/janedoe"]}

(***************************************************************************)
(* scrapers/enhanced_author_extractor.py: extract_author_comprehensive     *)
(***************************************************************************)

\* every text a page of the model offers as a candidate name
GateInputs ==
    Texts \cup ByTexts \cup {sc.name : sc \in Scripts} \cup {"", NoneStr}

\* clean_author_name applied to each of them (evaluated once)
cleaned == [t \in GateInputs |-> clean_author_name(t)]

\* validate_author applied to every name and title of the model
\* (evaluated once)
validated ==
    [a \in GateInputs \cup Range(cleaned), t \in Titles |-> validate_author(a, t)]

\* one iteration of "for script in scripts" of strategy 5:
\* the new author_info and whether the loop breaks
script_step(info, sc) ==
    CASE sc.kind = "str" ->
            LET n == cleaned[sc.name]
            IN  [info |-> [info EXCEPT !.name = n], brk |-> truthy(n)]
      [] sc.kind = "dict" ->
            LET n == cleaned[sc.name]
                set == [info EXCEPT !.name = n, !.role = ""]
            IN  \* an exception after the assignments is swallowed by
                \* "except: continue": no break
                [info |-> set, brk |-> ~sc.tail_raises /\ truthy(n)]
      [] OTHER -> [info |-> info, brk |-> FALSE]

RECURSIVE jsonld_loop(_, _)
jsonld_loop(info, scripts) ==
    IF Len(scripts) = 0 THEN info
    ELSE LET r == script_step(info, Head(scripts))
         IN  IF r.brk THEN r.info ELSE jsonld_loop(r.info, Tail(scripts))

\* strategy 3: the first selector whose element has an accepted text
RECURSIVE first_clean_selector(_, _)
first_clean_selector(pg, sels) ==
    IF Len(sels) = 0 THEN NoneStr
    ELSE IF pg.slots[Head(sels)] # NoneStr
            /\ truthy(cleaned[pg.slots[Head(sels)]])
         THEN cleaned[pg.slots[Head(sels)]]
         ELSE first_clean_selector(pg, Tail(sels))

strategy1(pg, info) ==
    IF pg.slots["box"] # NoneStr
    THEN [info EXCEPT
            !.name = cleaned[pg.slots["box"]],
            !.role = IF pg.extras THEN ExtraRole ELSE info.role,
            !.bio_snippet = IF pg.extras THEN ExtraBio ELSE info.bio_snippet,
            !.email = IF pg.extras THEN ExtraEmail ELSE info.email,
            !.social = IF pg.extras THEN ExtraSocial ELSE {}]
    ELSE info

strategy2(pg, info) ==
    IF ~truthy(info.name) /\ pg.slots["rel"] # NoneStr
    THEN [info EXCEPT !.name = cleaned[pg.slots["rel"]]]
    ELSE info

strategy3(pg, info) ==
    IF ~truthy(info.name)
    THEN [info EXCEPT !.name = first_clean_selector(pg, strategy3_selectors)]
    ELSE info

strategy4(pg, info) ==
    IF ~truthy(info.name)
    THEN LET m1 == IF truthy(pg.slots["meta_author"])
                   THEN cleaned[pg.slots["meta_author"]]
                   ELSE info.name
         IN  IF ~truthy(m1) /\ truthy(pg.slots["meta_article"])
             THEN [info EXCEPT !.name = cleaned[pg.slots["meta_article"]]]
             ELSE [info EXCEPT !.name = m1]
    ELSE info

strategy5(pg, info) ==
    IF ~truthy(info.name) THEN jsonld_loop(info, pg.scripts) ELSE info

strategy6(pg, info) ==
    IF ~truthy(info.name) /\ pg.slots["by"] # NoneStr
    THEN [info EXCEPT !.name = cleaned[pg.slots["by"]]]
    ELSE info

strategy7(pg, info) ==
    IF pg.slots["contributor"] # NoneStr /\ ~truthy(info.name)
    THEN [info EXCEPT !.name = cleaned[pg.slots["contributor"]]]
    ELSE info

\* "Extract Social Media / Email if not found yet": the page-wide scan
page_wide(pg, info) ==
    [info EXCEPT
        !.social = IF info.social = {} /\ pg.extras THEN ExtraSocial ELSE info.social,
        !.email = IF ~truthy(info.email) /\ pg.extras THEN ExtraEmail ELSE info.email]

empty_author_info ==
    [name |-> NoneStr, role |-> NoneStr, email |-> NoneStr,
     bio_snippet |-> NoneStr, social |-> {}]

extract_author_comprehensive(pg) ==
    page_wide(pg,
      strategy7(pg, strategy6(pg, strategy5(pg, strategy4(pg,
        strategy3(pg, strategy2(pg, strategy1(pg, empty_author_info))))))))

(***************************************************************************)
(* scrapers/article_scraper.py: extract_author, scrape_journalist_info     *)
(***************************************************************************)

\* strategy 1 of extract_author: the first selector with a non-empty text
RECURSIVE first_selector_text(_, _)
first_selector_text(pg, sels) ==
    IF Len(sels) = 0 THEN NoneStr
    ELSE IF truthy(pg.slots[Head(sels)]) THEN pg.slots[Head(sels)]
    ELSE first_selector_text(pg, Tail(sels))

\* strategy 3 of extract_author: the first JSON-LD script only
legacy_jsonld(pg) ==
    IF Len(pg.scripts) = 0 THEN NoneStr
    ELSE LET sc == pg.scripts[1]
         IN  IF sc.kind \in {"str", "dict", "dict_nonstr"} THEN sc.name ELSE NoneStr

\* extract_author(soup, page): the raw text, not passed through
\* clean_author_name
extract_author(pg) ==
    IF truthy(first_selector_text(pg, legacy_selectors))
    THEN first_selector_text(pg, legacy_selectors)
    ELSE IF truthy(pg.slots["meta_author"]) THEN pg.slots["meta_author"]
    ELSE IF truthy(pg.slots["meta_article"]) THEN pg.slots["meta_article"]
    ELSE legacy_jsonld(pg)

\* "if not author_info['name']: author_info['name'] = extract_author(...)"
with_fallback(pg, info) ==
    IF ~truthy(info.name) THEN [info EXCEPT !.name = extract_author(pg)] ELSE info

ExtendedFields ==
    {"author_role", "author_email", "author_bio", "twitter", "twitter_url",
     "linkedin", "linkedin_url", "instagram", "facebook"}

\* the social entry of one platform, as a record fragment
social_fields(info, platform, handle_key, url_key) ==
    IF \E e \in info.social : e.platform = platform
    THEN LET e == CHOOSE x \in info.social : x.platform = platform
         IN  IF url_key = NoneStr THEN (handle_key :> e.handle)
             ELSE (handle_key :> e.handle) @@ (url_key :> e.url)
    ELSE <<>>

\* "Add enhanced fields if author is valid"
enhanced_fields_ungated(author_name, info) ==
    (IF truthy(info.role) THEN [author_role |-> info.role] ELSE <<>>)
    @@ (IF truthy(info.email) THEN [author_email |-> info.email] ELSE <<>>)
    @@ (IF truthy(info.bio_snippet) THEN [author_bio |-> info.bio_snippet] ELSE <<>>)
    @@ social_fields(info, "twitter", "twitter", "twitter_url")
    @@ social_fields(info, "linkedin", "linkedin", "linkedin_url")
    @@ social_fields(info, "instagram", "instagram", NoneStr)
    @@ social_fields(info, "facebook", "facebook", NoneStr)

enhanced_fields(author_name, info) ==
    IF author_name # "Unknown" THEN enhanced_fields_ungated(author_name, info)
    ELSE <<>>

\* the dict scrape_journalist_info builds (lines 44-77)
build_result(pg, info) ==
    LET author_name == validated[info.name, pg.title]
    IN  [author |-> author_name, title |-> pg.title, section |-> NoneStr,
         date |-> NoneStr, url |-> "https://site.org/news/1"]
        @@ enhanced_fields(author_name, info)

ExtractInit ==
    /\ \E scripts \in ScriptLists, filled \in SUBSET ProbedSlots :
          /\ Cardinality(filled) + Len(scripts) <= MaxFilled
          /\ \E txt \in [filled -> Texts \cup ByTexts],
                title \in Titles, extras \in BOOLEAN :
                /\ \A sl \in filled : txt[sl] \in SlotTexts(sl)
                /\ page = [slots |-> [sl \in AllSlots |->
                                        IF sl \in filled THEN txt[sl] ELSE NoneStr],
                           scripts |-> scripts, title |-> title, extras |-> extras]
    /\ extract_pc = "fetch"
    /\ author_info = empty_author_info
    /\ record = None

ExtractIdle ==
    /\ page = [slots |-> [sl \in AllSlots |-> NoneStr], scripts |-> <<>>,
               title |-> NoneStr, extras |-> FALSE]
    /\ extract_pc = "idle"
    /\ author_info = empty_author_info
    /\ record = None

\* page.goto or page.content raised (timeout, navigation error): the
\* except clause returns None
FetchFails ==
    /\ extract_pc = "fetch"
    /\ extract_pc' = "done"
    /\ record' = None
    /\ UNCHANGED <<page, author_info>>
    /\ UNCHANGED nonExtractVars

\* lines 29-32: the page loaded; the cascade runs
ExtractAuthor ==
    /\ extract_pc = "fetch"
    /\ author_info' = extract_author_comprehensive(page)
    /\ extract_pc' = "extracted"
    /\ UNCHANGED <<page, record>>
    /\ UNCHANGED nonExtractVars

\* lines 34-36: "Fallback to old method if new method fails"
Fallback ==
    /\ extract_pc = "extracted"
    /\ author_info' = with_fallback(page, author_info)
    /\ extract_pc' = "named"
    /\ UNCHANGED <<page, record>>
    /\ UNCHANGED nonExtractVars

\* lines 38-77: validate the author and build the record
BuildResult ==
    /\ extract_pc = "named"
    /\ author_info.name # NonStr
    /\ record' = build_result(page, author_info)
    /\ extract_pc' = "done"
    /\ UNCHANGED <<page, author_info>>
    /\ UNCHANGED nonExtractVars

\* validate_author calls author.lower() on a value that is no str: the
\* AttributeError is caught by "except Exception" and None is returned
BuildRaises ==
    /\ extract_pc = "named"
    /\ author_info.name = NonStr
    /\ record' = None
    /\ extract_pc' = "done"
    /\ UNCHANGED <<page, author_info>>
    /\ UNCHANGED nonExtractVars

ExtractNext == FetchFails \/ ExtractAuthor \/ Fallback \/ BuildResult \/ BuildRaises

(***************************************************************************)
(* Claims about the extraction (checked under SpecExtract)                 *)
(***************************************************************************)

\* C6: every record scrape_journalist_info returns has an author that is a
\* non-empty string (a name or "Unknown"), and it carries extended fields
\* only when the author is not "Unknown".
C6_AuthorNonEmptyExtendedOnlyIfKnown ==
    record # None =>
        /\ record.author \notin {"", NoneStr, NonStr}
        /\ (DOMAIN record \cap ExtendedFields # {}) => record.author # "Unknown"

\* a record with author "Unknown" although the page offered a role, a bio,
\* an e-mail and a twitter link
C6_Witness ==
    /\ record # None
    /\ record.author = "Unknown"
    /\ truthy(author_info.role)
    /\ truthy(author_info.email)
    /\ author_info.social # {}

\* the candidate names of the seven strategies, in cascade order (a JSON-LD
\* script without a string name offers none)
script_candidates(pg) ==
    [k \in 1..Len(pg.scripts) |->
        IF pg.scripts[k].kind \in {"str", "dict"} THEN pg.scripts[k].name
        ELSE NoneStr]

cascade_candidates(pg) ==
    <<pg.slots["box"], pg.slots["rel"]>>
    \o [k \in 1..Len(strategy3_selectors) |-> pg.slots[strategy3_selectors[k]]]
    \o <<pg.slots["meta_author"], pg.slots["meta_article"]>>
    \o script_candidates(pg)
    \o <<pg.slots["by"], pg.slots["contributor"]>>

\* the cleaned candidate of the earliest strategy whose candidate passes
first_accepted(pg) ==
    LET c == cascade_candidates(pg)
        ok == {k \in 1..Len(c) : truthy(cleaned[c[k]])}
    IN  IF ok = {} THEN NoneStr
        ELSE cleaned[c[CHOOSE k \in ok : \A j \in ok : k <= j]]

\* the gate as the claim words it: 3 to 50 characters, at most 5 tokens, an
\* uppercase character, no denylist term
gate_accepts(name) ==
    /\ Len(name) >= 3
    /\ Len(name) <= 50
    /\ Len(split(name)) <= 5
    /\ \E k \in 1..Len(name) : isupper(Char(name, k))
    /\ ~\E term \in clean_bad_terms : contains(lower(name), term)

\* C7: the author of every record is "Unknown" or a string the gate
\* accepts, and it is "Unknown" when no candidate of the cascade passes the
\* gate.
C7_EveryAuthorPassedTheGate ==
    record # None =>
        /\ record.author = "Unknown" \/ gate_accepts(record.author)
        /\ first_accepted(page) = NoneStr => record.author = "Unknown"

\* C8: extract_author_comprehensive returns as name the cleaned candidate
\* of the earliest strategy (in the order 1 to 7) whose candidate passes the
\* gate, and None when no candidate passes.
C8_EarliestAcceptedCandidateWins ==
    extract_pc = "extracted" => author_info.name = first_accepted(page)

\* C9: whenever the name the cascade chose equals the extracted title
\* case-insensitively, the author of the record is "Unknown".
C9_NameEqualToTitleIsUnknown ==
    (/\ record # None
     /\ truthy(author_info.name)
     /\ truthy(page.title)
     /\ lower(author_info.name) = lower(page.title)) =>
        record.author = "Unknown"

\* the meta author equals the h1 title up to case, a later strategy (the
\* "By <Name>" paragraph) offers another valid name, and the record says
\* "Unknown"
C9_Witness ==
    /\ record # None
    /\ page.slots["meta_author"] = "Jane Smith"
    /\ author_info.name = "Jane Smith"
    /\ page.title = "JANE SMITH"
    /\ page.slots["by"] = "Al Roe"
    /\ record.author = "Unknown"

(***************************************************************************)
(* URL predicates: utils/article_collector.py, scrapers/section_crawler.py *)
(* and scrapers/section_discovery.py                                       *)
(***************************************************************************)

\* s.replace(old, new): every non-overlapping occurrence, left to right
RECURSIVE replace(_, _, _)
replace(s, old, new) ==
    IF Len(s) < Len(old) THEN s
    ELSE IF startswith(s, old)
         THEN new \o replace(SubSeq(s, Len(old) + 1, Len(s)), old, new)
         ELSE Char(s, 1) \o replace(SubSeq(s, 2, Len(s)), old, new)

\* the longest prefix of s without "/", "?" or "#"
RECURSIVE authority(_)
authority(s) ==
    IF Len(s) = 0 \/ Char(s, 1) \in {"/", "?", "#"} THEN ""
    ELSE Char(s, 1) \o authority(SubSeq(s, 2, Len(s)))

\* urlparse(url).netloc: what stands between the "//" that follows the
\* scheme and the next "/", "?" or "#"; empty for a URL without "//"
netloc(u) ==
    LET rest == IF startswith(u, "https:") THEN SubSeq(u, 7, Len(u))
                ELSE IF startswith(u, "http:") THEN SubSeq(u, 6, Len(u))
                ELSE u
    IN  IF startswith(rest, "//") THEN authority(SubSeq(rest, 3, Len(rest)))
        ELSE ""

\* same_domain (the definitions of article_collector.py and of
\* section_discovery.py are the same)
same_domain(url1, url2) ==
    replace(netloc(url1), "www.", "") = replace(netloc(url2), "www.", "")

\* any(p in s for p in patterns)
any_in(patterns, s) == \E p \in patterns : contains(s, p)

collector_article_patterns ==
    {"/article/", "/story/", "/news/", "/post/", "/20", "/2025/", "/2024/"}

collector_skip_patterns ==
    {"/author/", "/tag/", "/category/", "/search", "/about", "/contact",
     "/privacy", "/terms", ".pdf", ".jpg", ".png", "/feed", "/rss"}

\* is_article_url of utils/article_collector.py
collector_is_article_url(u, base_domain) ==
    IF ~same_domain(u, base_domain) THEN FALSE
    ELSE IF any_in(collector_skip_patterns, lower(u)) THEN FALSE
    ELSE any_in(collector_article_patterns, lower(u))

section_keywords ==
    {"/politics", "/sports", "/business", "/tech", "/world", "/opinion",
     "/entertainment", "/health", "/section/", "/category/", "/topic/"}

\* is_section_page of utils/article_collector.py
is_section_page(u, base_domain) ==
    IF ~same_domain(u, base_domain) THEN FALSE
    ELSE any_in(section_keywords, lower(u))

crawler_article_patterns == {"/article/", "/story/", "/news/", "/post/", "/20"}

crawler_skip == {"/author/", "/tag/", "/category/", "/search", ".pdf", ".jpg"}

\* is_article_url of scrapers/section_crawler.py (base_url is not read)
crawler_is_article_url(u, base) ==
    IF ~any_in(crawler_article_patterns, lower(u)) THEN FALSE
    ELSE IF any_in(crawler_skip, lower(u)) THEN FALSE
    ELSE TRUE

section_patterns == {"/section/", "/category/", "/topic/", "/news/"}

main_sections == {"politics", "sports", "business", "tech", "world", "opinion",
                  "entertainment", "health", "science", "culture"}

discovery_skip == {"/article/", "/story/", "/author/", "/search", "/about", "/contact"}

\* is_section_url of scrapers/section_discovery.py
is_section_url(u, base) ==
    IF u = "" \/ ~same_domain(u, base) THEN FALSE
    ELSE IF any_in(discovery_skip, lower(u)) THEN FALSE
    ELSE any_in(section_patterns, lower(u)) \/ any_in(main_sections, lower(u))

\* the URLs a crawl meets: hosts and paths that exercise every pattern list
ClassifyHosts == {"example.com", "www.example.com", "news.org"}

ClassifyPaths ==
    {"", "/", "/news/politics", "/article/budget-vote", "/politics",
     "/2024/05/storm", "/category/tech", "/author/bob", "/section/world",
     "/about", "/NEWS/Sports", "/story/health-tips", "/tag/economy",
     "/search?q=a", "/post/1.pdf", "/topic/science", "/culture",
     "/news/2025/rss"}

ClassifyUrls ==
    {"https://" \o h \o p : h \in ClassifyHosts, p \in ClassifyPaths}
    \cup {"", "/news/local", "//example.com/news/a#top"}

ClassifyBases == {"https://example.com", "https://www.example.com/"}

\* the verdicts of one pair of predicates
collector_verdicts(u, base) ==
    [article |-> collector_is_article_url(u, base),
     section |-> is_section_page(u, base)]

crawler_verdicts(u, base) ==
    [article |-> crawler_is_article_url(u, base),
     section |-> is_section_url(u, base)]

ClassifyInit ==
    /\ url \in ClassifyUrls
    /\ base_url \in ClassifyBases
    /\ collector_verdict = None
    /\ crawler_verdict = None

ClassifyIdle ==
    /\ url = ""
    /\ base_url = ""
    /\ collector_verdict = [article |-> FALSE, section |-> FALSE]
    /\ crawler_verdict = [article |-> FALSE, section |-> FALSE]

\* crawl_sections_parallel classifies a link (article_collector.py 106, 114)
ClassifyForCollector ==
    /\ collector_verdict = None
    /\ collector_verdict' = collector_verdicts(url, base_url)
    /\ UNCHANGED <<url, base_url, crawler_verdict>>
    /\ UNCHANGED nonClassifyVars

\* crawl_section_deeply and discover_all_sections classify a link
\* (section_crawler.py 50, section_discovery.py 32)
ClassifyForCrawler ==
    /\ crawler_verdict = None
    /\ crawler_verdict' = crawler_verdicts(url, base_url)
    /\ UNCHANGED <<url, base_url, collector_verdict>>
    /\ UNCHANGED nonClassifyVars

ClassifyNext == ClassifyForCollector \/ ClassifyForCrawler

\* C10: classification is mutually exclusive: for every URL and base URL
\* the article predicate and the section predicate of a pair are never both
\* true, for the pair of the article collector and for the pair of the
\* section crawler and section discovery.
C10_ArticleAndSectionExclusive ==
    /\ collector_verdict # None =>
          ~(collector_verdict.article /\ collector_verdict.section)
    /\ crawler_verdict # None =>
          ~(crawler_verdict.article /\ crawler_verdict.section)

\* C11: a URL is classified as an article only if it is on the same domain
\* as the base URL ("www." stripped), by is_article_url of the article
\* collector and by is_article_url of the section crawler alike, so a crawl
\* adds only same-domain URLs to its article URL set.
C11_ArticlesAreSameDomain ==
    /\ (collector_verdict # None /\ collector_verdict.article) =>
          same_domain(url, base_url)
    /\ (crawler_verdict # None /\ crawler_verdict.article) =>
          same_domain(url, base_url)

(***************************************************************************)
(* scrapers/api_scraper.py                                                 *)
(***************************************************************************)

\* s.rstrip('/')
RECURSIVE rstrip_slash(_)
rstrip_slash(s) ==
    IF Len(s) > 0 /\ Char(s, Len(s)) = "/"
    THEN rstrip_slash(SubSeq(s, 1, Len(s) - 1)) ELSE s

find_api_endpoints(site) ==
    LET base == rstrip_slash(site)
    IN  <<base \o "/api/articles",
          base \o "/api/v1/content",
          base \o "/wp-json/wp/v2/posts",
          base \o "/graphql",
          base \o "/api/search",
          base \o "/feed/json",
          "https://api." \o netloc(site) \o "/articles">>

\* JSON values: a list, a dict, or anything else
JList(items) == [type |-> "list", items |-> items]
JDict(fields) == [type |-> "dict", fields |-> fields]
JOther == [type |-> "other"]

\* a response body that is no JSON text: r.json() raises on it
NotJson == [type |-> "html"]

\* the items an endpoint serves
ItemA == JDict([title |-> "A", url |-> "https://example.com/news/a"])
ItemA2 == JDict([headline |-> "A again", link |-> "https://example.com/news/a"])
ItemB == JDict([title |-> "B", author |-> "X", permalink |-> "https://example.com/news/b"])
ItemC == JDict([title |-> "C", url |-> "https://example.com/news/c"])
ItemNoUrl == JDict([title |-> "A", author |-> "X"])
ItemNoTitle == JDict([title |-> "", url |-> "https://example.com/news/d"])

\* the JSON documents an endpoint serves
Payloads ==
    {JList(<<>>),
     JList(<<ItemA>>),
     JList(<<ItemA, ItemA2, ItemB>>),
     JList(<<ItemNoTitle, JOther>>),
     JDict([posts |-> JList(<<ItemNoUrl>>)]),
     JDict([posts |-> JList(<<ItemA>>), articles |-> JList(<<ItemB, ItemC>>)]),
     JDict([data |-> ItemC]),
     JDict([meta |-> JList(<<ItemA>>)]),
     JOther}

\* what session.get does: it raises (timeout, connection error) or returns
\* a response with a status code, a Content-Type and a body
RequestRaises ==
    [raises |-> TRUE, status_code |-> 0, json_header |-> FALSE, body |-> NotJson]

Response(status_code, json_header, body) ==
    [raises |-> FALSE, status_code |-> status_code, json_header |-> json_header,
     body |-> body]

Responses ==
    {RequestRaises,
     Response(404, FALSE, NotJson),
     Response(500, TRUE, JList(<<ItemA>>)),
     Response(200, FALSE, NotJson),
     Response(200, TRUE, NotJson),
     Response(200, FALSE, JList(<<ItemB>>))}
    \cup {Response(200, TRUE, body) : body \in Payloads}

known_keys == <<"articles", "posts", "data", "items", "results", "content">>

\* lines 78-86: the items of a JSON document
json_items(data) ==
    IF data.type = "list" THEN data.items
    ELSE IF data.type = "dict"
    THEN LET present == {k \in 1..Len(known_keys) : known_keys[k] \in DOMAIN data.fields}
         IN  IF present = {} THEN <<>>
             ELSE LET k == CHOOSE j \in present : \A h \in present : j <= h
                      v == data.fields[known_keys[k]]
                  IN  IF v.type = "list" THEN v.items ELSE <<v>>
    ELSE <<>>

\* item.get(k1) or item.get(k2) or ... or default
first_truthy(fields, keys, default) ==
    LET hits == {k \in 1..Len(keys) :
                    keys[k] \in DOMAIN fields /\ truthy(fields[keys[k]])}
    IN  IF hits = {} THEN default
        ELSE fields[keys[CHOOSE k \in hits : \A j \in hits : k <= j]]

\* lines 93-99
article_of(item) ==
    [title |-> first_truthy(item.fields, <<"title", "headline">>, ""),
     author |-> first_truthy(item.fields, <<"author", "byline">>, "Unknown"),
     url |-> first_truthy(item.fields, <<"url", "link", "permalink">>, ""),
     date |-> first_truthy(item.fields, <<"date", "published", "created_at">>, ""),
     section |-> first_truthy(item.fields, <<"section", "category", "topic">>, "")]

extract_articles_from_json(data) ==
    LET items == json_items(data)
        first100 == SubSeq(items, 1, Min(Len(items), 100))
        kept == SelectSeq(first100,
                          LAMBDA item : item.type = "dict" /\ article_of(item).title # "")
    IN  [k \in 1..Len(kept) |-> article_of(kept[k])]

\* lst[:n] for n >= 0
take_untruncated(lst, n) == lst

take(lst, n) == SubSeq(lst, 1, Min(Len(lst), n))

\* line 55: the pages asked for are range(2, page_stop(max_articles))
page_stop(n) == Min(n \div 100 + 1, 20)

\* try_api_scraping returns: its frame, with api_url, params and
\* all_articles, is gone
ApiReturn(value) ==
    /\ api_pc' = "returned"
    /\ api_data' = value
    /\ api_index' = 1
    /\ api_page' = 1
    /\ all_articles' = <<>>

\* lines 67-68 and 38: the except clause goes on with the next endpoint,
\* which is asked for its first page (params is built anew at line 41);
\* past the last one try_api_scraping returns None (line 70)
NextEndpoint ==
    IF api_index < Len(find_api_endpoints(website_url))
    THEN /\ api_index' = api_index + 1
         /\ api_pc' = "probe"
         /\ api_page' = 1
         /\ all_articles' = <<>>
         /\ UNCHANGED api_data
    ELSE ApiReturn(None)

\* lines 42-55: the first request to an endpoint
ApiProbe(resp) ==
    /\ collect_pc = "api"
    /\ api_pc = "probe"
    /\ LET is_json == /\ ~resp.raises
                      /\ resp.status_code = 200
                      /\ resp.json_header
                      /\ resp.body # NotJson
           articles == IF is_json THEN extract_articles_from_json(resp.body) ELSE <<>>
       IN  IF articles # <<>>
           THEN /\ found_api' = TRUE
                /\ IF 2 < page_stop(max_articles)
                   THEN /\ api_pc' = "paginate"
                        /\ api_page' = 2
                        /\ all_articles' = articles
                        /\ UNCHANGED <<api_data, api_index>>
                   ELSE ApiReturn([articles |-> take(articles, max_articles)])
           ELSE /\ NextEndpoint
                /\ UNCHANGED found_api
    /\ UNCHANGED <<website_url, max_articles, collect_pc, crawlVars, url_list, deepVars>>
    /\ UNCHANGED nonCollectVars

\* lines 55-66: the request for one further page of the endpoint
ApiPaginate(resp) ==
    /\ collect_pc = "api"
    /\ api_pc = "paginate"
    /\ IF resp.raises \/ (resp.status_code = 200 /\ resp.body = NotJson)
       THEN \* session.get or r.json() raises inside the outer try
            NextEndpoint
       ELSE LET more == IF resp.status_code = 200
                        THEN extract_articles_from_json(resp.body) ELSE <<>>
            IN  IF more # <<>> /\ api_page + 1 < page_stop(max_articles)
                THEN /\ all_articles' = all_articles \o more
                     /\ api_page' = api_page + 1
                     /\ UNCHANGED <<api_pc, api_data, api_index>>
                ELSE ApiReturn([articles |-> take(all_articles \o more, max_articles)])
    /\ UNCHANGED found_api
    /\ UNCHANGED <<website_url, max_articles, collect_pc, crawlVars, url_list, deepVars>>
    /\ UNCHANGED nonCollectVars

(***************************************************************************)
(* utils/article_collector.py: collect_article_urls, crawl_sections_parallel*)
(***************************************************************************)

\* list(s) of a set s: the elements in an order the program does not choose
Orderings(s) == {order \in [1..Cardinality(s) -> s] : Range(order) = s}

\* line 36
urls_of(articles) ==
    {articles[k].url : k \in {j \in 1..Len(articles) : articles[j].url # ""}}

\* line 35: "if api_data"
truthy_data(data) == IF data = None THEN FALSE ELSE data.articles # <<>>

\* lines 35-39: the API found articles
ReturnApiUrls ==
    /\ collect_pc = "api"
    /\ api_pc = "returned"
    /\ truthy_data(api_data)
    /\ \E order \in Orderings(urls_of(api_data.articles)) :
          url_list' = take(order, max_articles)
    /\ collect_pc' = "returned_api"
    /\ UNCHANGED <<website_url, max_articles, apiVars, crawlVars, deepVars>>
    /\ UNCHANGED nonCollectVars

\* lines 44-47 and 58-71: no API, the section crawl starts at the homepage
StartCrawl ==
    /\ collect_pc = "api"
    /\ api_pc = "returned"
    /\ ~truthy_data(api_data)
    /\ collect_pc' = "crawl"
    /\ pages_to_visit' = <<website_url>>
    /\ visited_pages' = {}
    /\ crawl_article_urls' = {}
    /\ failed_urls' = <<>>
    /\ crawled' = <<>>
    /\ navigated' = <<>>
    /\ UNCHANGED <<website_url, max_articles, apiVars, url_list, deepVars>>
    /\ UNCHANGED nonCollectVars

\* the absolute URLs of the links of a page
CrawlUrls ==
    {"https://example.com/article/a",
     "https://example.com/news/politics",
     "https://www.example.com/politics",
     "https://example.com/world?page=2",
     "https://news.org/story/x"}

WebsiteUrls == {"https://example.com", "https://www.example.com/"}

\* the link lists of a page: at most MaxLinks links
MaxLinks == 2

LinkLists == UNION {[1..n -> CrawlUrls] : n \in 0..MaxLinks}

\* the target of the "next" link of a page, None without such a link
NextLinks == {NoneStr, "https://example.com/world?page=2"}

\* the verdicts of the collector's predicates on the links of the model
link_is_article == [u \in CrawlUrls, site \in WebsiteUrls |-> collector_is_article_url(u, site)]

link_is_section == [u \in CrawlUrls, site \in WebsiteUrls |-> is_section_page(u, site)]

\* article_urls.add(absolute_url) at line 107 (the second definition is an
\* add that drops what the set held)
set_add_forgets(s, u) == {u}

set_add(s, u) == s \cup {u}

\* lines 97-116: the loop over the links of the loaded page
RECURSIVE process_links(_, _, _, _, _)
process_links(links, articles, queue, visited, site) ==
    IF links = <<>> THEN [articles |-> articles, queue |-> queue]
    ELSE LET u == Head(links)
         IN  IF link_is_article[u, site]
             THEN process_links(Tail(links), set_add(articles, u), queue, visited, site)
             ELSE IF link_is_section[u, site] /\ u \notin visited
             THEN process_links(Tail(links), articles, Append(queue, u), visited, site)
             ELSE process_links(Tail(links), articles, queue, visited, site)

\* line 73
crawl_goes_on ==
    pages_to_visit # <<>> /\ Cardinality(crawl_article_urls) < max_articles

\* lines 79-83: the page popped from the queue was visited before
CrawlSkipVisited ==
    /\ collect_pc = "crawl"
    /\ crawl_goes_on
    /\ Head(pages_to_visit) \in visited_pages
    /\ pages_to_visit' = Tail(pages_to_visit)
    /\ UNCHANGED <<visited_pages, crawl_article_urls, failed_urls, crawled,
                   navigated>>
    /\ UNCHANGED <<website_url, max_articles, collect_pc, apiVars, url_list, deepVars>>
    /\ UNCHANGED nonCollectVars

\* lines 79-129: one page is loaded; the load or a later call on the page
\* may raise after the links before it were handled (completed = FALSE)
CrawlLoad(links, completed, next_url) ==
    /\ collect_pc = "crawl"
    /\ crawl_goes_on
    /\ Head(pages_to_visit) \notin visited_pages
    /\ LET current_url == Head(pages_to_visit)
           visited == visited_pages \cup {current_url}
           after == process_links(links, crawl_article_urls,
                                  Tail(pages_to_visit), visited, website_url)
       IN  /\ visited_pages' = visited
           /\ navigated' = Append(navigated, current_url)
           /\ crawl_article_urls' = after.articles
           /\ IF completed
              THEN /\ pages_to_visit' =
                         IF next_url # NoneStr /\ next_url \notin visited
                         THEN Append(after.queue, next_url) ELSE after.queue
                   /\ UNCHANGED failed_urls
              ELSE /\ pages_to_visit' = after.queue
                   /\ failed_urls' = Append(failed_urls, current_url)
    /\ UNCHANGED crawled
    /\ UNCHANGED <<website_url, max_articles, collect_pc, apiVars, url_list, deepVars>>
    /\ UNCHANGED nonCollectVars

\* lines 131-137 and 48-53: return of the crawl and of collect_article_urls
ReturnCrawlUrls ==
    /\ crawled' \in Orderings(crawl_article_urls)
    /\ \E order \in Orderings(Range(crawled')) :
          url_list' = take(order, max_articles)
    /\ collect_pc' = "returned_crawl"
    /\ UNCHANGED <<website_url, max_articles, apiVars, pages_to_visit, visited_pages,
                   crawl_article_urls, failed_urls, navigated, deepVars>>
    /\ UNCHANGED nonCollectVars

\* line 73: the queue is empty or the target is met
CrawlFinish ==
    /\ collect_pc = "crawl"
    /\ ~crawl_goes_on
    /\ ReturnCrawlUrls

\* lines 75-77: five minutes have passed
CrawlTimeout ==
    /\ collect_pc = "crawl"
    /\ crawl_goes_on
    /\ ReturnCrawlUrls

\* C20: during crawl_sections_parallel the set of article URLs only grows,
\* and the list it returns holds every URL of the set, also after failed
\* page loads and when the time limit stopped the crawl.
C20_CollectedUrlsAreNeverRolledBack ==
    [][/\ collect_pc = "crawl" => crawl_article_urls \subseteq crawl_article_urls'
       /\ collect_pc' = "returned_crawl" =>
             /\ crawl_article_urls \subseteq Range(crawled')
             /\ Range(crawled') \subseteq crawl_article_urls
      ]_vars

\* the crawl was stopped by the time limit with a page still queued, after
\* a page failed to load and two URLs were collected
C20_Witness ==
    /\ collect_pc = "returned_crawl"
    /\ failed_urls # <<>>
    /\ pages_to_visit # <<>>
    /\ Cardinality(crawl_article_urls) = 2
    /\ Cardinality(crawl_article_urls) < max_articles
    /\ Range(crawled) = crawl_article_urls

\* C24: once an endpoint is found, try_api_scraping asks for a further page
\* only while the page count is under the cap (at most 19 pages of one
\* endpoint) and the page before brought a well-formed item that no earlier
\* page had returned, and it returns at most max_articles records.
C24_PaginationStopsAtCapEmptyOrEcho ==
    [][/\ api_page' <= 19
       /\ (api_pc = "paginate" /\ api_pc' = "paginate") =>
             /\ Len(all_articles') > Len(all_articles)
             /\ \E k \in (Len(all_articles) + 1)..Len(all_articles') :
                   all_articles'[k] \notin Range(all_articles)
       /\ (api_pc' = "returned" /\ api_data' # None) =>
             Len(api_data'.articles) <= max_articles
      ]_vars

(***************************************************************************)
(* deep_scraper.py: run_deep_intelligence, up to the URL list              *)
(***************************************************************************)

DeepUrls ==
    {"https://example.com/article/a", "https://example.com/news/b",
     "https://example.com/story/c"}

\* what try_rss_feeds returns: a list of at most MaxRss URLs.  The function
\* is imported by deep_scraper.py but defined nowhere in the repository; it
\* is modelled by what its caller does with the result.
MaxRss == 2

try_rss_feeds == UNION {[1..n -> DeepUrls] : n \in 0..MaxRss}

\* what asyncio.gather returns at line 45: one URL set per crawled section,
\* for at most MaxSections sections (sections[:5] in the source)
MaxSections == 2

SectionResults == UNION {[1..n -> SUBSET DeepUrls] : n \in 0..MaxSections}

\* lines 47-50: the loop over the section results, with its break
RECURSIVE merge_results(_, _, _)
merge_results(all, section_results, n) ==
    IF section_results = <<>> THEN all
    ELSE LET merged == all \cup Head(section_results)
         IN  IF Cardinality(merged) >= n THEN merged
             ELSE merge_results(merged, Tail(section_results), n)

\* lines 29-38
DeepRss(rss_urls) ==
    /\ deep_pc = "rss"
    /\ all_article_urls' = Range(rss_urls)
    /\ deep_pc' = IF Cardinality(Range(rss_urls)) < max_articles
                  THEN "sections" ELSE "list"
    /\ UNCHANGED <<website_url, max_articles, collect_pc, apiVars, crawlVars,
                   url_list, article_list>>
    /\ UNCHANGED nonCollectVars

\* line 40: the navigation of discover_all_sections is not inside a try
DeepDiscoverRaises ==
    /\ deep_pc = "sections"
    /\ deep_pc' = "raised"
    /\ UNCHANGED <<website_url, max_articles, collect_pc, apiVars, crawlVars,
                   url_list, all_article_urls, article_list>>
    /\ UNCHANGED nonCollectVars

\* lines 40-52
DeepSections(section_results) ==
    /\ deep_pc = "sections"
    /\ all_article_urls' = merge_results(all_article_urls, section_results, max_articles)
    /\ deep_pc' = "list"
    /\ UNCHANGED <<website_url, max_articles, collect_pc, apiVars, crawlVars,
                   url_list, article_list>>
    /\ UNCHANGED nonCollectVars

\* line 54
DeepList ==
    /\ deep_pc = "list"
    /\ \E order \in Orderings(all_article_urls) :
          article_list' = take(order, max_articles)
    /\ deep_pc' = "scrape"
    /\ UNCHANGED <<website_url, max_articles, collect_pc, apiVars, crawlVars,
                   url_list, all_article_urls>>
    /\ UNCHANGED nonCollectVars

MaxArticlesChoices == {1, 2, 200, 300}

CollectInit ==
    /\ website_url \in WebsiteUrls
    /\ max_articles \in MaxArticlesChoices
    /\ \/ collect_pc = "api" /\ api_pc = "probe" /\ deep_pc = "idle"
       \/ collect_pc = "idle" /\ api_pc = "idle" /\ deep_pc = "rss"
    /\ api_index = 1
    /\ api_page = 1
    /\ all_articles = <<>>
    /\ api_data = None
    /\ found_api = FALSE
    /\ pages_to_visit = <<>>
    /\ visited_pages = {}
    /\ crawl_article_urls = {}
    /\ failed_urls = <<>>
    /\ crawled = <<>>
    /\ navigated = <<>>
    /\ url_list = <<>>
    /\ all_article_urls = {}
    /\ article_list = <<>>

CollectIdle ==
    /\ website_url = ""
    /\ max_articles = 1
    /\ collect_pc = "idle"
    /\ api_pc = "idle"
    /\ deep_pc = "idle"
    /\ api_index = 1
    /\ api_page = 1
    /\ all_articles = <<>>
    /\ api_data = None
    /\ found_api = FALSE
    /\ pages_to_visit = <<>>
    /\ visited_pages = {}
    /\ crawl_article_urls = {}
    /\ failed_urls = <<>>
    /\ crawled = <<>>
    /\ navigated = <<>>
    /\ url_list = <<>>
    /\ all_article_urls = {}
    /\ article_list = <<>>

CollectNext ==
    \/ \E resp \in Responses : ApiProbe(resp)
    \/ \E resp \in Responses : ApiPaginate(resp)
    \/ ReturnApiUrls
    \/ StartCrawl
    \/ CrawlSkipVisited
    \/ \E links \in LinkLists, completed \in BOOLEAN, next_url \in NextLinks :
          CrawlLoad(links, completed, next_url)
    \/ CrawlFinish
    \/ CrawlTimeout
    \/ \E rss_urls \in try_rss_feeds : DeepRss(rss_urls)
    \/ DeepDiscoverRaises
    \/ \E section_results \in SectionResults : DeepSections(section_results)
    \/ DeepList

(***************************************************************************)
(* Claims about URL discovery (checked under SpecCollect)                  *)
(***************************************************************************)

\* C4: if an API endpoint returned at least one well-formed item on its
\* first page ("Found API" was printed), collect_article_urls returns the
\* API result and never starts the section crawl, whatever the later
\* pagination requests return.
C4_ApiHitNeverFallsThroughToCrawl ==
    found_api => collect_pc \in {"api", "returned_api"}

NoDuplicates(lst) == \A j, k \in 1..Len(lst) : lst[j] = lst[k] => j = k

\* C5: the URL list collect_article_urls returns and article_list of
\* run_deep_intelligence hold no URL twice and at most max_articles URLs, on
\* the API path and on the crawl path.
C5_UrlListDeduplicatedAndTruncated ==
    /\ collect_pc \in {"returned_api", "returned_crawl"} =>
          NoDuplicates(url_list) /\ Len(url_list) <= max_articles
    /\ deep_pc = "scrape" =>
          NoDuplicates(article_list) /\ Len(article_list) <= max_articles

\* the crawl found more URLs than asked for and the list was cut
C5_Witness ==
    /\ collect_pc = "returned_crawl"
    /\ Cardinality(crawl_article_urls) > max_articles
    /\ Len(url_list) = max_articles

(***************************************************************************)
(* utils/aggregator.py: aggregate_journalist_data, and the merge of the    *)
(* search results into author_profiles (deep_scraper.py, lines 86-108)     *)
(***************************************************************************)

\* ord(c) of the characters of a date
ord == [c \in {"-", "0", "1", "2", "3", "4", "5", "6", "7", "8", "9"} |->
           CASE c = "-" -> 45 [] c = "0" -> 48 [] c = "1" -> 49 [] c = "2" -> 50
             [] c = "3" -> 51 [] c = "4" -> 52 [] c = "5" -> 53 [] c = "6" -> 54
             [] c = "7" -> 55 [] c = "8" -> 56 [] c = "9" -> 57]

\* a < b of two str
RECURSIVE str_less(_, _)
str_less(a, b) ==
    IF Len(b) = 0 THEN FALSE
    ELSE IF Len(a) = 0 THEN TRUE
    ELSE IF Char(a, 1) = Char(b, 1)
         THEN str_less(SubSeq(a, 2, Len(a)), SubSeq(b, 2, Len(b)))
         ELSE ord[Char(a, 1)] < ord[Char(b, 1)]

\* max(dates) of a non-empty list of str (the first of the largest)
RECURSIVE str_max(_)
str_max(dates) ==
    IF Len(dates) = 1 THEN dates[1]
    ELSE LET rest == str_max(Tail(dates))
         IN  IF str_less(Head(dates), rest) THEN rest ELSE Head(dates)

\* ', '.join(tokens)
RECURSIVE join_comma(_)
join_comma(tokens) ==
    IF Len(tokens) = 0 THEN ""
    ELSE IF Len(tokens) = 1 THEN tokens[1]
    ELSE tokens[1] \o ", " \o join_comma(Tail(tokens))

\* the article records scrape_articles_parallel hands over
Article(author, title, section, date, u) ==
    [author |-> author, title |-> title, section |-> section, date |-> date,
     url |-> u]

ArticleChoices ==
    {Article("Ann Lee", "Budget vote", "Politics", "2024-03-01", "https://example.com/news/a"),
     Article("Ann Lee", "Cup final", "Sports", "2024-01-12", "https://example.com/news/b"),
     Article("Bo Chen", "Storm warning", "Politics", NoneStr, "https://example.com/news/c"),
     Article("Unknown", "Wire report", "Sports", "2024-02-02", "https://example.com/news/d"),
     Article(NoneStr, NoneStr, NoneStr, NoneStr, "")}

\* at most MaxRecords records
MaxRecords == 3

ArticleLists == UNION {[1..n -> ArticleChoices] : n \in 0..MaxRecords}

AggSections == {"Politics", "Sports"}

\* the details of one author: what scrape_author_details found on the
\* profile page (name is the text of its h1, articles_count the count it
\* shows; a count of None is left out)
DetailChoices ==
    {[twitter |-> "https://twitter.com/annlee", bio |-> ""],
     [name |-> "Bo Chen", articles_count |-> 7, email |-> NoneStr],
     [name |-> NoneStr, articles_count |-> 0, bio |-> "Covers politics."]}

AggAuthors == {"Ann Lee", "Bo Chen"}

\* author_profiles: None or a dict from author names to details
PyDict(d) == [dict |-> d]

ProfileMaps ==
    {None} \cup {PyDict(d) : d \in UNION {[names -> DetailChoices] :
                                              names \in SUBSET AggAuthors}}

\* the profiles search_journalist_profile returns (google_enrichment.py 42-53)
GProfile(name, twitter, facebook, bio) ==
    [name |-> name, twitter |-> twitter, linkedin |-> NoneStr,
     instagram |-> NoneStr, facebook |-> facebook, email |-> NoneStr,
     workplace |-> NoneStr, bio |-> bio, website |-> NoneStr]

GProfileChoices ==
    {GProfile("Ann Lee", "https://twitter.com/ann_lee", "https://facebook.com/ann.lee", NoneStr),
     GProfile("Ann Lee", NoneStr, NoneStr, "Ann Lee is a reporter."),
     GProfile("Bo Chen", NoneStr, NoneStr, NoneStr)}

\* at most MaxSearched search results
MaxSearched == 1

\* enrich_journalists_batch searches every author of the list once
GoogleResults ==
    {found \in UNION {[1..n -> GProfileChoices] : n \in 0..MaxSearched} :
        \A j, k \in 1..Len(found) : found[j].name = found[k].name => j = k}

\* "if v" of the value v of field k
truthy_field(k, v) ==
    IF k = "articles_count" THEN v # 0
    ELSE IF k \in {"recent_articles", "article_urls"} THEN v # <<>>
    ELSE truthy(v)

\* d.update(other)
dict_update(d, other) ==
    [k \in DOMAIN d \cup DOMAIN other |-> IF k \in DOMAIN other THEN other[k] ELSE d[k]]

\* {k: v for k, v in d.items() if v}
truthy_items(d) ==
    LET keys == {k \in DOMAIN d : truthy_field(k, d[k])}
    IN  [k \in keys |-> d[k]]

\* deep_scraper.py, lines 97-108: the fields of a search result that are
\* copied into the author's details
copied_fields == <<"twitter", "linkedin", "instagram", "email", "workplace", "bio">>

merge_gprofile(detailed, gprofile) ==
    LET keys == {k \in Range(copied_fields) : truthy_field(k, gprofile[k])}
    IN  dict_update(detailed, [k \in keys |-> gprofile[k]])

\* deep_scraper.py, lines 91-108
RECURSIVE merge_google(_, _)
merge_google(profile_map, gprofiles) ==
    IF gprofiles = <<>> THEN profile_map
    ELSE LET g == Head(gprofiles)
             before == IF g.name \in DOMAIN profile_map THEN profile_map[g.name]
                       ELSE <<>>
             merged == [a \in DOMAIN profile_map \cup {g.name} |->
                           IF a = g.name THEN merge_gprofile(before, g)
                           ELSE profile_map[a]]
         IN  merge_google(merged, Tail(gprofiles))

\* lines 15-17: the groups as pairs <<author, articles>>, in the order in
\* which the authors first occur (a dict keeps insertion order)
RECURSIVE group_by_author(_, _)
group_by_author(groups, articles) ==
    IF articles = <<>> THEN groups
    ELSE LET article == Head(articles)
             at == {k \in 1..Len(groups) : groups[k][1] = article.author}
         IN  IF truthy(article.author) /\ article.author # "Unknown"
             THEN IF at = {}
                  THEN group_by_author(Append(groups, <<article.author, <<article>>>>),
                                       Tail(articles))
                  ELSE group_by_author(
                           [k \in 1..Len(groups) |->
                               IF k \in at THEN <<groups[k][1], Append(groups[k][2], article)>>
                               ELSE groups[k]],
                           Tail(articles))
             ELSE group_by_author(groups, Tail(articles))

\* line 14: by_author starts empty in every call
stale_by_author(previous) == previous

new_by_author(previous) == <<>>

\* list(s) of a set of str: the iteration order of a set is fixed by the
\* hash seed of the process, here the order of the elements in seed
list_of_set(s, seed) == SelectSeq(seed, LAMBDA x : x \in s)

\* [a[field] for a in articles if a.get(field)]
field_values(articles, field) ==
    LET kept == SelectSeq(articles, LAMBDA a : truthy(a[field]))
    IN  [k \in 1..Len(kept) |-> kept[k][field]]

\* line 47: "author_profiles and author_name in author_profiles"
has_details(profile_map, author_name) ==
    IF profile_map = None THEN FALSE ELSE author_name \in DOMAIN profile_map.dict

\* lines 23-49: the profile of one author
build_profile(author_name, articles, profile_map, seed) ==
    LET sections == list_of_set(Range(field_values(articles, "section")), seed)
        dates == field_values(articles, "date")
        profile == [name |-> author_name,
                    beat |-> IF sections # <<>> THEN join_comma(take(sections, 3))
                             ELSE NoneStr,
                    bio |-> NoneStr,
                    email |-> NoneStr,
                    twitter |-> NoneStr,
                    linkedin |-> NoneStr,
                    articles_count |-> Len(articles),
                    recent_articles |-> take(field_values(articles, "title"), 5),
                    article_urls |-> take(field_values(articles, "url"), 5),
                    most_recent_date |-> IF dates # <<>> THEN str_max(dates) ELSE NoneStr,
                    profile_url |-> NoneStr]
    IN  IF has_details(profile_map, author_name)
        THEN dict_update(profile, truthy_items(profile_map.dict[author_name]))
        ELSE profile

\* line 54: list.sort is stable, also with reverse=True: of two profiles
\* with equal keys the one that stood first stays first
sort_swaps_ties(placed, later) == placed > later

stays_in_front(placed, later) == placed >= later

RECURSIVE insert_by_count(_, _)
insert_by_count(sorted, profile) ==
    IF sorted # <<>> /\ stays_in_front(Head(sorted).articles_count, profile.articles_count)
    THEN <<Head(sorted)>> \o insert_by_count(Tail(sorted), profile)
    ELSE <<profile>> \o sorted

RECURSIVE sort_by_count(_, _)
sort_by_count(sorted, profiles) ==
    IF profiles = <<>> THEN sorted
    ELSE sort_by_count(insert_by_count(sorted, Head(profiles)), Tail(profiles))

\* lines 19-51: the profiles in the order of by_author, before the sort
unsorted_profiles(groups, profile_map, seed) ==
    [k \in 1..Len(groups) |-> build_profile(groups[k][1], groups[k][2], profile_map, seed)]

aggregate_journalist_data(groups, profile_map, seed) ==
    sort_by_count(<<>>, unsorted_profiles(groups, profile_map, seed))

AggregateInit ==
    /\ articles_data \in ArticleLists
    /\ author_profiles \in ProfileMaps
    /\ google_profiles = <<>>
    /\ hash_seed \in Orderings(AggSections)
    /\ agg_pc = "enrich"
    /\ by_author = <<>>
    /\ comprehensive_profiles = <<>>
    /\ profiles_again = <<>>

AggregateIdle ==
    /\ articles_data = <<>>
    /\ author_profiles = None
    /\ google_profiles = <<>>
    /\ hash_seed = <<>>
    /\ agg_pc = "idle"
    /\ by_author = <<>>
    /\ comprehensive_profiles = <<>>
    /\ profiles_again = <<>>

\* the authors enrich_journalists_batch is asked about (deep_scraper.py 62, 88)
unique_authors_of(articles) ==
    {articles[k].author : k \in {j \in 1..Len(articles) : articles[j].author # "Unknown"}}

\* deep_scraper.py, lines 86-108: use_google_enrichment is set
MergeGoogle(enriched) ==
    /\ agg_pc = "enrich"
    /\ author_profiles # None
    /\ \A k \in 1..Len(enriched) :
          enriched[k].name \in unique_authors_of(articles_data)
    /\ google_profiles' = enriched
    /\ author_profiles' = PyDict(merge_google(author_profiles.dict, enriched))
    /\ agg_pc' = "aggregate"
    /\ UNCHANGED <<articles_data, hash_seed, by_author, comprehensive_profiles,
                   profiles_again>>
    /\ UNCHANGED nonAggregateVars

\* use_google_enrichment is not set, or aggregate_journalist_data is called
\* with a map of the caller's own
SkipGoogle ==
    /\ agg_pc = "enrich"
    /\ agg_pc' = "aggregate"
    /\ UNCHANGED <<articles_data, author_profiles, google_profiles, hash_seed,
                   by_author, comprehensive_profiles, profiles_again>>
    /\ UNCHANGED nonAggregateVars

\* a call of aggregate_journalist_data(articles_data, author_profiles)
Aggregate ==
    /\ agg_pc = "aggregate"
    /\ by_author' = group_by_author(new_by_author(by_author), articles_data)
    /\ comprehensive_profiles' =
          aggregate_journalist_data(by_author', author_profiles, hash_seed)
    /\ agg_pc' = "once"
    /\ UNCHANGED <<articles_data, author_profiles, google_profiles, hash_seed,
                   profiles_again>>
    /\ UNCHANGED nonAggregateVars

\* a second call on the same arguments, in the same process
AggregateAgain ==
    /\ agg_pc = "once"
    /\ by_author' = group_by_author(new_by_author(by_author), articles_data)
    /\ profiles_again' =
          aggregate_journalist_data(by_author', author_profiles, hash_seed)
    /\ agg_pc' = "twice"
    /\ UNCHANGED <<articles_data, author_profiles, google_profiles, hash_seed,
                   comprehensive_profiles>>
    /\ UNCHANGED nonAggregateVars

AggregateNext ==
    \/ \E enriched \in GoogleResults : MergeGoogle(enriched)
    \/ SkipGoogle
    \/ Aggregate
    \/ AggregateAgain

(***************************************************************************)
(* Claims about the aggregation (checked under SpecAggregate)              *)
(***************************************************************************)

\* the distinct author values of the records other than "Unknown", None
\* and the empty string
KnownAuthors ==
    {articles_data[k].author :
        k \in {j \in 1..Len(articles_data) :
                  articles_data[j].author \notin {"Unknown", "", NoneStr}}}

ProfileNames(profiles) == {profiles[k].name : k \in 1..Len(profiles)}

\* C12: aggregate_journalist_data returns exactly one profile for each
\* distinct author of the records other than "Unknown" and the empty
\* string, no profile for a name that occurs only in the enrichment map,
\* and the names of the profiles are pairwise distinct.
C12_OneProfilePerKnownAuthor ==
    agg_pc \in {"once", "twice"} =>
        /\ \A a \in KnownAuthors :
              Cardinality({k \in 1..Len(comprehensive_profiles) :
                              comprehensive_profiles[k].name = a}) = 1
        /\ ProfileNames(comprehensive_profiles) \subseteq KnownAuthors
        /\ \A j, k \in 1..Len(comprehensive_profiles) :
              comprehensive_profiles[j].name = comprehensive_profiles[k].name => j = k

\* the value field f has after details were merged into previous: the
\* value of the details when it is non-empty, the previous value otherwise
NonEmptyOverwrite(previous, details, merged) ==
    \A f \in DOMAIN details :
        IF truthy_field(f, details[f])
        THEN f \in DOMAIN merged /\ merged[f] = details[f]
        ELSE IF f \in DOMAIN previous
             THEN f \in DOMAIN merged /\ merged[f] = previous[f]
             ELSE f \notin DOMAIN merged

\* the fields of a search result, without the name it was searched by
SearchFields(gprofile) == [f \in DOMAIN gprofile \ {"name"} |-> gprofile[f]]

\* C13: the enrichment merge is a non-empty overwrite at every stage: when
\* a search result is merged into author_profiles and when the details of
\* an author are merged into the profile, every field gets the enrichment
\* value if that value is non-empty and keeps its previous value otherwise.
C13_MergeIsNonEmptyOverwrite ==
    [][/\ (agg_pc = "enrich" /\ agg_pc' = "aggregate" /\ Len(google_profiles') = 1) =>
            LET g == google_profiles'[1]
                previous == IF g.name \in DOMAIN author_profiles.dict
                            THEN author_profiles.dict[g.name] ELSE <<>>
            IN  NonEmptyOverwrite(previous, SearchFields(g),
                                  author_profiles'.dict[g.name])
       /\ (agg_pc = "aggregate" /\ agg_pc' = "once") =>
            \A k \in 1..Len(by_author') :
                has_details(author_profiles, by_author'[k][1]) =>
                    NonEmptyOverwrite(
                        build_profile(by_author'[k][1], by_author'[k][2], None, hash_seed),
                        author_profiles.dict[by_author'[k][1]],
                        build_profile(by_author'[k][1], by_author'[k][2],
                                      author_profiles, hash_seed))
      ]_vars

\* the known authors in the order in which they first occur in the records
FirstOccurrence(a) ==
    CHOOSE k \in 1..Len(articles_data) :
        /\ articles_data[k].author = a
        /\ \A j \in 1..(k - 1) : articles_data[j].author # a

\* C14: the returned list is sorted by non-increasing articles_count, and
\* profiles with equal articles_count stand in group-discovery order, the
\* order in which their authors first occur in the records.
C14_SortedByCountTiesInDiscoveryOrder ==
    agg_pc \in {"once", "twice"} =>
        /\ \A j, k \in 1..Len(comprehensive_profiles) :
              j < k => comprehensive_profiles[j].articles_count
                          >= comprehensive_profiles[k].articles_count
        /\ \A j, k \in 1..Len(by_author) :
              j < k => FirstOccurrence(by_author[j][1]) < FirstOccurrence(by_author[k][1])
        /\ LET unsorted == unsorted_profiles(by_author, author_profiles, hash_seed)
           IN  \E order \in Orderings(1..Len(unsorted)) :
                  /\ \A k \in 1..Len(unsorted) :
                        comprehensive_profiles[k] = unsorted[order[k]]
                  /\ \A j, k \in 1..Len(unsorted) :
                        (/\ j < k
                         /\ unsorted[order[j]].articles_count
                               = unsorted[order[k]].articles_count) =>
                            order[j] < order[k]

\* two authors with one article each, the one found first not the first in
\* the alphabet
C14_Witness ==
    /\ agg_pc = "once"
    /\ Len(comprehensive_profiles) = 2
    /\ comprehensive_profiles[1].articles_count = comprehensive_profiles[2].articles_count
    /\ comprehensive_profiles[1].name = "Bo Chen"
    /\ comprehensive_profiles[2].name = "Ann Lee"

\* the records of an author
RecordsOf(a) == {k \in 1..Len(articles_data) : articles_data[k].author = a}

RECURSIVE SumOfCounts(_)
SumOfCounts(profiles) ==
    IF profiles = <<>> THEN 0
    ELSE Head(profiles).articles_count + SumOfCounts(Tail(profiles))

\* C25: every returned profile has an articles_count of at least 1 that is
\* the number of records of the profile's author, and the counts of all
\* profiles add up to the number of records with a known author.
C25_CountIsNumberOfRecords ==
    agg_pc \in {"once", "twice"} =>
        /\ \A k \in 1..Len(comprehensive_profiles) :
              /\ comprehensive_profiles[k].articles_count >= 1
              /\ comprehensive_profiles[k].articles_count
                    = Cardinality(RecordsOf(by_author[
                          CHOOSE g \in 1..Len(by_author) :
                              build_profile(by_author[g][1], by_author[g][2],
                                            author_profiles, hash_seed)
                                  = comprehensive_profiles[k]][1]))
        /\ SumOfCounts(comprehensive_profiles)
              = Cardinality(UNION {RecordsOf(a) : a \in KnownAuthors})

browser_close(b) == "closed"

\* leaving "async with async_playwright() as p": the driver is stopped and
\* with it every browser it launched (the second definition is the exit of
\* a context that would leave its browsers running)
playwright_exit_leaves_open(b) == b

playwright_exit(b) == IF b = "open" THEN "closed" ELSE b

\* the characters re.sub(r'[^a-z0-9-]', '', slug) keeps
SlugChars ==
    {"a", "b", "c", "d", "e", "f", "g", "h", "i", "j", "k", "l", "m", "n",
     "o", "p", "q", "r", "s", "t", "u", "v", "w", "x", "y", "z", "0", "1",
     "2", "3", "4", "5", "6", "7", "8", "9", "-"}

RECURSIVE keep_slug_chars(_)
keep_slug_chars(s) ==
    IF s = "" THEN ""
    ELSE (IF Char(s, 1) \in SlugChars THEN Char(s, 1) ELSE "")
            \o keep_slug_chars(SubSeq(s, 2, Len(s)))

\* author_profiles.py 17-18
slug_of(author_name) ==
    keep_slug_chars(replace(replace(lower(author_name), " ", "-"), "'", ""))

\* author_profiles.py 21-28
profile_patterns(author_name, site) ==
    <<site \o "/author/" \o slug_of(author_name),
      site \o "/journalist/" \o slug_of(author_name),
      site \o "/contributor/" \o slug_of(author_name),
      site \o "/profile/" \o slug_of(author_name),
      site \o "/writers/" \o slug_of(author_name),
      site \o "/staff/" \o slug_of(author_name)>>

ProfileAuthors == {"Ann Lee", "Sean O'Neil"}

\* the URL lists of the authors and sites of the model
patterns_of == [a \in ProfileAuthors, site \in WebsiteUrls |-> profile_patterns(a, site)]

\* what page.goto(url) of get_author_profile_page does: it raises, returns
\* no response, or returns a response with a status
GotoOutcomes == {"raises", "none", "404", "200"}

\* the links of the model in the order sorted() gives them
SortedCrawlUrls ==
    <<"https://example.com/article/a",
      "https://example.com/news/politics",
      "https://example.com/world?page=2",
      "https://news.org/story/x",
      "https://www.example.com/politics">>

\* sorted(list(sections))[:15]
sorted_sections(sections) ==
    LET sorted == SelectSeq(SortedCrawlUrls, LAMBDA u : u \in sections)
    IN  SubSeq(sorted, 1, Min(15, Len(sorted)))

\* section_keywords of discover_all_sections (section_discovery.py 45-46)
discovery_keywords ==
    {"politics", "sports", "business", "tech", "world", "opinion",
     "entertainment", "health", "science"}

\* the verdicts of the predicates of discover_all_sections on the links
link_is_section_url == [u \in CrawlUrls, site \in WebsiteUrls |-> is_section_url(u, site)]

link_has_keyword == [u \in CrawlUrls |-> any_in(discovery_keywords, lower(u))]

\* section_discovery.py 23-57: nav are the links of the navigation, header,
\* menu and footer, body the other links of the page (the links of the
\* model are absolute, urljoin returns them as they are)
discovered_sections(nav, body, site) ==
    sorted_sections(
        {u \in Range(nav) : link_is_section_url[u, site]}
        \cup {u \in Range(nav) \cup Range(body) :
                 link_has_keyword[u] /\ link_is_section_url[u, site]})

\* the section the crawl starts from and the pages its pagination leads to
SectionUrl == "https://example.com/politics"

PaginationUrls ==
    {SectionUrl, "https://example.com/politics?page=2",
     "https://example.com/politics?page=3"}

\* what find_pagination_links returns (at most 3 URLs, section_crawler.py 101)
PaginationChoices ==
    {<<>>,
     <<"https://example.com/politics?page=2">>,
     <<"https://example.com/politics?page=2", "https://example.com/politics?page=2">>,
     <<"https://example.com/politics?page=3", "https://example.com/politics">>,
     <<"https://example.com/politics?page=2", "https://example.com/politics?page=3",
       "https://example.com/politics">>}

\* the verdict of the crawler's is_article_url on the links of the model
NewsUrl(n) == "https://example.com/news/" \o ToString(n)

\* pages that link to many articles: the crawl stops at 100 URLs
ManyLinks ==
    {[k \in 1..99 |-> NewsUrl(k)], [k \in 1..100 |-> NewsUrl(k)],
     [k \in 1..60 |-> NewsUrl(k + 50)]}

SectionLinkLists == LinkLists \cup ManyLinks

section_link_is_article ==
    [u \in CrawlUrls \cup {NewsUrl(k) : k \in 1..110} |->
        crawler_is_article_url(u, SectionUrl)]

\* section_crawler.py 45-51
found_articles(links) == {u \in Range(links) : section_link_is_article[u]}

\* section_crawler.py 58-61: next_links[:2], the visited ones left out
queued_links(queue, next_links, visited) ==
    queue \o SelectSeq(SubSeq(next_links, 1, Min(2, Len(next_links))),
                       LAMBDA u : u \notin visited)

\* max_pages of the model: 20 is what run_deep_intelligence passes, 50 the default
MaxPagesChoices == {1, 2, 20, 50}

FetchCalls ==
    {[fn |-> "discover_all_sections", website_url |-> site] : site \in WebsiteUrls}
    \cup {[fn |-> "crawl_section_deeply", section_url |-> SectionUrl, max_pages |-> n] :
             n \in MaxPagesChoices}
    \cup {[fn |-> "scrape_journalist_info", article_url |-> u] : u \in DeepUrls}
    \cup {[fn |-> "get_author_profile_page", author_name |-> a, website_url |-> site] :
             a \in ProfileAuthors, site \in WebsiteUrls}
    \cup {[fn |-> "scrape_author_details", author_profile_url |-> patterns_of[a, site][1]] :
             a \in ProfileAuthors, site \in WebsiteUrls}

\* the value a call returned
Returned(value) == [value |-> value]

FetchInit ==
    /\ fetch_call \in FetchCalls
    /\ fetch_pc = "entry"
    /\ browser = "none"
    /\ fetch_result = None
    /\ failed_loads = 0
    /\ pattern_index = 1
    /\ section_pages_to_visit = IF fetch_call.fn = "crawl_section_deeply"
                        THEN <<fetch_call.section_url>> ELSE <<>>
    /\ section_visited_pages = {}
    /\ section_article_urls = {}
    /\ section_page_count = 0
    /\ section_navigated = <<>>

FetchIdle ==
    /\ fetch_call = None
    /\ fetch_pc = "idle"
    /\ browser = "none"
    /\ fetch_result = None
    /\ failed_loads = 0
    /\ pattern_index = 1
    /\ section_pages_to_visit = <<>>
    /\ section_visited_pages = {}
    /\ section_article_urls = {}
    /\ section_page_count = 0
    /\ section_navigated = <<>>

crawlLocals == <<section_pages_to_visit, section_visited_pages, section_article_urls,
                 section_page_count, section_navigated>>

\* "async with async_playwright() as p: browser = await p.chromium.launch(...)"
Launch ==
    /\ fetch_pc = "entry"
    /\ fetch_pc' = "launched"
    /\ browser' = "open"
    /\ UNCHANGED <<fetch_call, fetch_result, failed_loads, pattern_index, crawlLocals>>
    /\ UNCHANGED nonFetchVars

\* section_discovery.py 19-57: the page loads
DiscoverLoad(nav, body) ==
    /\ fetch_pc = "launched"
    /\ fetch_call.fn = "discover_all_sections"
    /\ browser' = playwright_exit(browser_close(browser))
    /\ fetch_result' = Returned(discovered_sections(nav, body, fetch_call.website_url))
    /\ fetch_pc' = "returned"
    /\ UNCHANGED <<fetch_call, failed_loads, pattern_index, crawlLocals>>
    /\ UNCHANGED nonFetchVars

\* section_discovery.py 19: page.goto raises; no try surrounds it, the
\* exception leaves the "async with" block and the function
DiscoverFails ==
    /\ fetch_pc = "launched"
    /\ fetch_call.fn = "discover_all_sections"
    /\ browser' = playwright_exit(browser)
    /\ failed_loads' = failed_loads + 1
    /\ fetch_pc' = "raised"
    /\ UNCHANGED <<fetch_call, fetch_result, pattern_index, crawlLocals>>
    /\ UNCHANGED nonFetchVars

crawl_loop_goes_on == section_pages_to_visit # <<>> /\ section_page_count < fetch_call.max_pages

\* section_crawler.py 29: "if current_url in visited_pages"
in_visited_pages_never(current_url, visited) == FALSE
in_visited_pages(current_url, visited) == current_url \in visited

\* section_crawler.py 27-30: a URL that was visited already is skipped
SectionSkipVisited ==
    /\ fetch_pc = "launched"
    /\ fetch_call.fn = "crawl_section_deeply"
    /\ crawl_loop_goes_on
    /\ in_visited_pages(Head(section_pages_to_visit), section_visited_pages)
    /\ section_pages_to_visit' = Tail(section_pages_to_visit)
    /\ UNCHANGED <<fetch_call, fetch_pc, browser, fetch_result, failed_loads,
                   pattern_index, section_visited_pages, section_article_urls,
                   section_page_count, section_navigated>>
    /\ UNCHANGED nonFetchVars

\* section_crawler.py 27-61: one page is loaded
SectionLoad(links, next_links) ==
    /\ fetch_pc = "launched"
    /\ fetch_call.fn = "crawl_section_deeply"
    /\ crawl_loop_goes_on
    /\ ~in_visited_pages(Head(section_pages_to_visit), section_visited_pages)
    /\ section_visited_pages' = section_visited_pages \cup {Head(section_pages_to_visit)}
    /\ section_page_count' = section_page_count + 1
    /\ section_navigated' = Append(section_navigated, Head(section_pages_to_visit))
    /\ section_article_urls' = section_article_urls \cup found_articles(links)
    /\ IF Cardinality(section_article_urls') >= 100
       THEN \* line 55: break, lines 66-68
            /\ section_pages_to_visit' = Tail(section_pages_to_visit)
            /\ browser' = playwright_exit(browser_close(browser))
            /\ fetch_result' = Returned(section_article_urls')
            /\ fetch_pc' = "returned"
       ELSE /\ section_pages_to_visit' = queued_links(Tail(section_pages_to_visit), next_links,
                                              section_visited_pages')
            /\ UNCHANGED <<browser, fetch_result, fetch_pc>>
    /\ UNCHANGED <<fetch_call, failed_loads, pattern_index>>
    /\ UNCHANGED nonFetchVars

\* section_crawler.py 35-51, 63-64: a call of the try block raises, the page
\* is dropped. links are the links handled before the exception: none when
\* page.goto raised, those before the href on which urljoin raised otherwise
SectionLoadFails(links) ==
    /\ fetch_pc = "launched"
    /\ fetch_call.fn = "crawl_section_deeply"
    /\ crawl_loop_goes_on
    /\ ~in_visited_pages(Head(section_pages_to_visit), section_visited_pages)
    /\ section_visited_pages' = section_visited_pages \cup {Head(section_pages_to_visit)}
    /\ section_page_count' = section_page_count + 1
    /\ section_navigated' = Append(section_navigated, Head(section_pages_to_visit))
    /\ section_article_urls' = section_article_urls \cup found_articles(links)
    /\ section_pages_to_visit' = Tail(section_pages_to_visit)
    /\ failed_loads' = failed_loads + 1
    /\ UNCHANGED <<fetch_call, fetch_pc, browser, fetch_result, pattern_index>>
    /\ UNCHANGED nonFetchVars

\* section_crawler.py 26, 66-68: the loop ends
SectionReturn ==
    /\ fetch_pc = "launched"
    /\ fetch_call.fn = "crawl_section_deeply"
    /\ ~crawl_loop_goes_on
    /\ browser' = playwright_exit(browser_close(browser))
    /\ fetch_result' = Returned(section_article_urls)
    /\ fetch_pc' = "returned"
    /\ UNCHANGED <<fetch_call, failed_loads, pattern_index, crawlLocals>>
    /\ UNCHANGED nonFetchVars

\* article_scraper.py 25-77: the page loads and the record is built
JournalistLoad ==
    /\ fetch_pc = "launched"
    /\ fetch_call.fn = "scrape_journalist_info"
    /\ browser' = playwright_exit(browser_close(browser))
    /\ fetch_result' = Returned([url |-> fetch_call.article_url])
    /\ fetch_pc' = "returned"
    /\ UNCHANGED <<fetch_call, failed_loads, pattern_index, crawlLocals>>
    /\ UNCHANGED nonFetchVars

\* article_scraper.py 25, 79-81: page.goto raises; browser.close() at line
\* 27 is not reached, the exception leaves the "async with" block and is
\* caught at line 79
JournalistLoadFails ==
    /\ fetch_pc = "launched"
    /\ fetch_call.fn = "scrape_journalist_info"
    /\ browser' = playwright_exit(browser)
    /\ failed_loads' = failed_loads + 1
    /\ fetch_result' = Returned(None)
    /\ fetch_pc' = "returned"
    /\ UNCHANGED <<fetch_call, pattern_index, crawlLocals>>
    /\ UNCHANGED nonFetchVars

\* article_scraper.py 29-81: the page loaded and the browser is closed, then
\* building the record raises
JournalistParseFails ==
    /\ fetch_pc = "launched"
    /\ fetch_call.fn = "scrape_journalist_info"
    /\ browser' = playwright_exit(browser_close(browser))
    /\ fetch_result' = Returned(None)
    /\ fetch_pc' = "returned"
    /\ UNCHANGED <<fetch_call, failed_loads, pattern_index, crawlLocals>>
    /\ UNCHANGED nonFetchVars

\* author_profiles.py 35-42: one pattern is tried
ProfileTry(outcome) ==
    /\ fetch_pc = "launched"
    /\ fetch_call.fn = "get_author_profile_page"
    /\ pattern_index <= 6
    /\ IF outcome = "200"
       THEN \* lines 38-40
            /\ browser' = playwright_exit(browser_close(browser))
            /\ fetch_result' =
                  Returned(patterns_of[fetch_call.author_name,
                                       fetch_call.website_url][pattern_index])
            /\ fetch_pc' = "returned"
            /\ UNCHANGED <<pattern_index, failed_loads>>
       ELSE /\ pattern_index' = pattern_index + 1
            /\ failed_loads' = IF outcome = "raises" THEN failed_loads + 1
                               ELSE failed_loads
            /\ UNCHANGED <<browser, fetch_result, fetch_pc>>
    /\ UNCHANGED <<fetch_call, crawlLocals>>
    /\ UNCHANGED nonFetchVars

\* author_profiles.py 44-46: no pattern answered
ProfileNotFound ==
    /\ fetch_pc = "launched"
    /\ fetch_call.fn = "get_author_profile_page"
    /\ pattern_index > 6
    /\ browser' = playwright_exit(browser_close(browser))
    /\ fetch_result' = Returned(NoneStr)
    /\ fetch_pc' = "returned"
    /\ UNCHANGED <<fetch_call, failed_loads, pattern_index, crawlLocals>>
    /\ UNCHANGED nonFetchVars

\* author_profiles.py 58-84: the profile page loads
DetailsLoad(details) ==
    /\ fetch_pc = "launched"
    /\ fetch_call.fn = "scrape_author_details"
    /\ browser' = playwright_exit(browser_close(browser))
    /\ fetch_result' = Returned(PyDict(details))
    /\ fetch_pc' = "returned"
    /\ UNCHANGED <<fetch_call, failed_loads, pattern_index, crawlLocals>>
    /\ UNCHANGED nonFetchVars

\* author_profiles.py 59, 62-64: page.goto raises
DetailsLoadFails ==
    /\ fetch_pc = "launched"
    /\ fetch_call.fn = "scrape_author_details"
    /\ browser' = playwright_exit(browser_close(browser))
    /\ failed_loads' = failed_loads + 1
    /\ fetch_result' = Returned(None)
    /\ fetch_pc' = "returned"
    /\ UNCHANGED <<fetch_call, pattern_index, crawlLocals>>
    /\ UNCHANGED nonFetchVars

FetchNext ==
    \/ Launch
    \/ \E nav, body \in LinkLists : DiscoverLoad(nav, body)
    \/ DiscoverFails
    \/ SectionSkipVisited
    \/ \E links \in SectionLinkLists, next_links \in PaginationChoices :
          SectionLoad(links, next_links)
    \/ \E links \in SectionLinkLists : SectionLoadFails(links)
    \/ SectionReturn
    \/ JournalistLoad
    \/ JournalistLoadFails
    \/ JournalistParseFails
    \/ \E outcome \in GotoOutcomes : ProfileTry(outcome)
    \/ ProfileNotFound
    \/ \E details \in DetailChoices : DetailsLoad(details)
    \/ DetailsLoadFails

\* C16: a failed navigation is never an unhandled fault: each of
\* discover_all_sections, crawl_section_deeply, scrape_journalist_info,
\* get_author_profile_page and scrape_author_details ends in a normal
\* return, no call ends by raising to its caller.
C16_FailedNavigationNeverRaises == fetch_pc # "raised"

C22_SectionCrawlIsBounded ==
    [][fetch_call.fn = "crawl_section_deeply" =>
          /\ section_page_count' <= fetch_call.max_pages
          /\ Len(section_navigated') <= fetch_call.max_pages
          /\ section_navigated' # section_navigated =>
                /\ Cardinality(section_article_urls) < 100
                /\ Len(section_pages_to_visit') <=
                      Len(section_pages_to_visit) - 1 + 2
      ]_vars

\* C23: no navigation is retried: within one call of crawl_sections_parallel
\* or of crawl_section_deeply each page URL is passed to page.goto at most
\* once, also when it was queued several times, and a page whose load failed
\* is never loaded again.
C23_NoPageIsNavigatedTwice ==
    /\ NoDuplicates(navigated)
    /\ NoDuplicates(section_navigated)
    /\ Range(navigated) = visited_pages
    /\ Range(section_navigated) = section_visited_pages
    /\ Range(failed_urls) \subseteq Range(navigated)

\* a page whose load failed is at the head of the queue once more: it had
\* been queued twice before it was loaded
C23_Witness ==
    /\ collect_pc = "crawl"
    /\ pages_to_visit # <<>>
    /\ Head(pages_to_visit) \in Range(failed_urls)
    /\ Len(navigated) >= 2

(***************************************************************************)
(* clean_author_name as a function of the candidate name                   *)
(***************************************************************************)

\* the candidates of the model: at most MaxTokens tokens, joined by blanks
MaxTokens == 6

CandidateTokens ==
    {"By", "Ann", "ann@example.com", "Wolfeschlegelstein"}

Candidates == {join(tokens) : tokens \in UNION {[1..n -> CandidateTokens] : n \in 0..MaxTokens}}

CleanInit ==
    /\ candidate \in Candidates
    /\ clean_pc = "call"
    /\ cleaned_name = NoneStr

CleanIdle ==
    /\ candidate = NoneStr
    /\ clean_pc = "idle"
    /\ cleaned_name = NoneStr

\* name = clean_author_name(candidate)
CleanCandidate ==
    /\ clean_pc = "call"
    /\ cleaned_name' = clean_author_name(candidate)
    /\ clean_pc' = "done"
    /\ UNCHANGED candidate
    /\ UNCHANGED nonCleanVars

CleanNext == CleanCandidate

\* C18: clean_author_name rejects (returns None for) every candidate name
\* that has more than 5 tokens or more than 50 characters.
C18_LongCandidatesAreRejected ==
    (/\ clean_pc = "done"
     /\ (Len(split(candidate)) > 5 \/ Len(candidate) > 50)) =>
        cleaned_name = NoneStr

(***************************************************************************)
(* scrapers/enhanced_author_extractor.py: extract_social_media             *)
(***************************************************************************)

\* s.split(sep)[-1] for a separator that is one character or several
RECURSIVE after_last(_, _)
after_last(s, sep) ==
    IF ~contains(s, sep) THEN s
    ELSE LET k == CHOOSE j \in 1..(Len(s) - Len(sep) + 1) :
                      /\ SubSeq(s, j, j + Len(sep) - 1) = sep
                      /\ \A h \in 1..(j - 1) : SubSeq(s, h, h + Len(sep) - 1) # sep
         IN  after_last(SubSeq(s, k + Len(sep), Len(s)), sep)

\* s.split('/')[0]
before_first_slash(s) ==
    IF ~contains(s, "/") THEN s
    ELSE LET k == CHOOSE j \in 1..Len(s) :
                      Char(s, j) = "/" /\ \A h \in 1..(j - 1) : Char(s, h) # "/"
         IN  SubSeq(s, 1, k - 1)

\* url.rstrip('/').split('/')[-1]
last_segment(u) == after_last(rstrip_slash(u), "/")

\* f"@{handle}" if not handle.startswith('@') else handle
at_handle(handle) == IF startswith(handle, "@") THEN handle ELSE "@" \o handle

\* the test of line 212
intent_or_share(u, handle) ==
    startswith(handle, "intent") \/ startswith(handle, "share")

SocialEntry(handle, u) == [handle |-> handle, url |-> u]

\* parse_social_url(url, social_dict): the dict after the call
parse_social_url(link, social_dict) ==
    LET u == lower(link)
        handle == last_segment(u)
    IN  IF contains(u, "twitter.com") \/ contains(u, "x.com")
        THEN IF handle # "" /\ ~intent_or_share(u, handle)
             THEN dict_update(social_dict, "twitter" :> SocialEntry(at_handle(handle), u))
             ELSE social_dict
        ELSE IF contains(u, "linkedin.com/in/")
        THEN dict_update(social_dict, "linkedin" :> SocialEntry(handle, u))
        ELSE IF contains(u, "instagram.com")
        THEN IF handle # "" /\ handle \notin {"p", "reel", "tv"}
             THEN dict_update(social_dict, "instagram" :> SocialEntry(at_handle(handle), u))
             ELSE social_dict
        ELSE IF contains(u, "facebook.com")
        THEN IF handle # "" /\ handle \notin {"sharer", "share"}
             THEN dict_update(social_dict, "facebook" :> SocialEntry(handle, u))
             ELSE social_dict
        ELSE IF contains(u, "medium.com/@")
        THEN dict_update(social_dict,
                 "medium" :> SocialEntry(before_first_slash(after_last(u, "medium.com/")), u))
        ELSE social_dict

IntentLink == "https://twitter.com/intent/tweet?text=Hi"

ProfileLink == "https://twitter.com/janedoe"

\* the href values of the anchors of the model
AnchorUrls ==
    {IntentLink, ProfileLink,
     "https://twitter.com/share?url=a",
     "https://www.linkedin.com/in/jane-doe/",
     "https://instagram.com/p/",
     "https://www.facebook.com/JaneDoe",
     "https://medium.com/@janedoe/post",
     "https://example.com/about"}

\* at most MaxAnchors anchors in the scope
MaxAnchors == 3

AnchorLists == UNION {[1..n -> AnchorUrls] : n \in 0..MaxAnchors}

SocialInit ==
    /\ anchors \in AnchorLists
    /\ link_index = 1
    /\ social = <<>>
    /\ social_pc = "loop"

SocialIdle ==
    /\ anchors = <<>>
    /\ link_index = 1
    /\ social = <<>>
    /\ social_pc = "idle"

\* lines 198-200: one link of the loop
ParseLink ==
    /\ social_pc = "loop"
    /\ link_index <= Len(anchors)
    /\ social' = parse_social_url(anchors[link_index], social)
    /\ link_index' = link_index + 1
    /\ UNCHANGED <<anchors, social_pc>>
    /\ UNCHANGED nonSocialVars

\* line 202
ReturnSocial ==
    /\ social_pc = "loop"
    /\ link_index > Len(anchors)
    /\ social_pc' = "returned"
    /\ UNCHANGED <<anchors, link_index, social>>
    /\ UNCHANGED nonSocialVars

SocialNext == ParseLink \/ ReturnSocial

\* C19: when the scope has an anchor to the intent link and an anchor to
\* https://twitter.com/janedoe, in either order, extract_social_media
\* returns the twitter handle "@janedoe"; the handle stored is never taken
\* from an intent or share link.
C19_ProfileHandleNotIntentHandle ==
    social_pc = "returned" =>
        /\ (/\ IntentLink \in Range(anchors)
            /\ ProfileLink \in Range(anchors)
            /\ \A k \in 1..Len(anchors) : anchors[k] \in {IntentLink, ProfileLink}) =>
               /\ "twitter" \in DOMAIN social
               /\ social["twitter"].handle = "@janedoe"
        /\ "twitter" \in DOMAIN social =>
               /\ ~contains(social["twitter"].url, "/intent/")
               /\ ~contains(social["twitter"].url, "/share")

(***************************************************************************)
(* scrapers/article_scraper.py: scrape_all_articles                        *)
(***************************************************************************)

\* longest URL list of the model; more than 30 so that the early stop happens
MaxSeqUrls == 36

AuthorName(n) == "Author " \o ToString(n)

\* What the site answers for the URL at position n: the call raises for
\* every r-th URL, returns None for every nn-th, an "Unknown" author for every
\* uk-th, the author of the first page for every rp-th, and otherwise an
\* author of its own (0 switches a case off).
page_outcome(n, r, nn, uk, rp) ==
    IF r > 0 /\ n % r = 0 THEN "raise"
    ELSE IF nn > 0 /\ n % nn = 0 THEN "None"
    ELSE IF uk > 0 /\ n % uk = 0 THEN "Unknown"
    ELSE IF rp > 0 /\ n % rp = 0 THEN AuthorName(1)
    ELSE AuthorName(n)

\* "if len(unique_authors) >= 30: break"
enough_authors_strict(count) == count > 30
enough_authors(count) == count >= 30

fallback_sections == <<"Politics", "Sports", "Business", "Tech", "World", "Opinion">>

\* fill_with_fallback_data(all_data): generic rows up to 30 rows
fill_with_fallback_data(data) ==
    data \o [k \in 1..(30 - Len(data)) |->
                [author |-> "Unknown",
                 section |-> fallback_sections[((Len(data) + k - 1) % 6) + 1],
                 url |-> NoneStr]]

SequentialInit ==
    /\ \E n \in 0..MaxSeqUrls : seq_article_urls = [u \in 1..n |-> NewsUrl(u)]
    /\ \E r \in {0, 5}, nn \in {0, 7}, uk \in {0, 3}, rp \in {0, 2} :
          seq_pages = [u \in 1..Len(seq_article_urls) |->
                          page_outcome(u, r, nn, uk, rp)]
    /\ seq_pc = "loop"
    /\ seq_index = 0
    /\ seq_all_data = <<>>
    /\ seq_unique_authors = {}
    /\ failed = 0
    /\ fetched = <<>>

SequentialIdle ==
    /\ seq_article_urls = <<>>
    /\ seq_pages = <<>>
    /\ seq_pc = "idle"
    /\ seq_index = 0
    /\ seq_all_data = <<>>
    /\ seq_unique_authors = {}
    /\ failed = 0
    /\ fetched = <<>>

\* the early stop at the head of the loop body
StopEarly ==
    /\ seq_pc = "loop"
    /\ seq_index < Len(seq_article_urls)
    /\ enough_authors(Cardinality(seq_unique_authors))
    /\ seq_pc' = "finish"
    /\ UNCHANGED <<seq_article_urls, seq_pages, seq_index, seq_all_data,
                   seq_unique_authors, failed, fetched>>
    /\ UNCHANGED nonSequentialVars

\* one pass of the loop body: scrape_journalist_info(url) and what follows
ScrapeNext ==
    /\ seq_pc = "loop"
    /\ seq_index < Len(seq_article_urls)
    /\ ~enough_authors(Cardinality(seq_unique_authors))
    /\ LET u == seq_index + 1
           out == seq_pages[u]
       IN  /\ fetched' = Append(fetched, u)
           /\ seq_index' = u
           /\ seq_all_data' =
                 IF out \in {"raise", "None"} THEN seq_all_data
                 ELSE Append(seq_all_data,
                             [author |-> out, url |-> seq_article_urls[u]])
           /\ seq_unique_authors' =
                 IF out \in {"raise", "None", "Unknown"} THEN seq_unique_authors
                 ELSE seq_unique_authors \cup {out}
           /\ failed' = IF out \in {"raise", "None"} THEN failed + 1 ELSE failed
    /\ UNCHANGED <<seq_article_urls, seq_pages, seq_pc>>
    /\ UNCHANGED nonSequentialVars

\* the list is exhausted
LoopEnds ==
    /\ seq_pc = "loop"
    /\ seq_index = Len(seq_article_urls)
    /\ seq_pc' = "finish"
    /\ UNCHANGED <<seq_article_urls, seq_pages, seq_index, seq_all_data,
                   seq_unique_authors, failed, fetched>>
    /\ UNCHANGED nonSequentialVars

\* the fallback rows and the return
SequentialReturn ==
    /\ seq_pc = "finish"
    /\ seq_all_data' = IF Len(seq_all_data) < 30
                       THEN fill_with_fallback_data(seq_all_data)
                       ELSE seq_all_data
    /\ seq_pc' = "returned"
    /\ UNCHANGED <<seq_article_urls, seq_pages, seq_index, seq_unique_authors,
                   failed, fetched>>
    /\ UNCHANGED nonSequentialVars

SequentialNext ==
    \/ StopEarly
    \/ ScrapeNext
    \/ LoopEnds
    \/ SequentialReturn

\* C30: scrape_all_articles scrapes the URLs one at a time in input order
\* until 30 unique authors are found or all URLs are processed: no URL is
\* fetched once 30 distinct non-"Unknown" authors are recorded; otherwise
\* every URL is attempted exactly once.
C30_SequentialUntilThirtyAuthors ==
    [][/\ fetched' # fetched => Cardinality(seq_unique_authors) < 30
       /\ fetched' = [k \in 1..Len(fetched') |-> k]
       /\ Cardinality(seq_unique_authors') <= 30
       /\ (seq_pc' = "returned" /\ Cardinality(seq_unique_authors') < 30) =>
             Len(fetched') = Len(seq_article_urls)
      ]_vars

\* a run that returned after the 30th author, with failed calls and
\* repeated authors on the way and URLs left unfetched
C30_Witness ==
    /\ seq_pc = "returned"
    /\ Cardinality(seq_unique_authors) = 30
    /\ Len(fetched) < Len(seq_article_urls)
    /\ Len(fetched) > 30
    /\ failed > 0

(***************************************************************************)
(* deep_scraper.py: the parallel section crawls of run_deep_intelligence   *)
(***************************************************************************)

\* sections[:5] in the source
MaxTasks == 2

GatherSections == <<"https://example.com/politics", "https://example.com/world">>

GatherMaxArticles == {1, 2, 3, 500}

\* the links of a page of a section
TaskLinks ==
    {<<>>, <<NewsUrl(1)>>, <<NewsUrl(2), NewsUrl(3)>>,
     <<NewsUrl(1), "https://www.example.com/politics">>}

\* what find_pagination_links returns on a page of section s
TaskPagination(s) ==
    {<<>>, <<s \o "?page=2">>, <<s \o "?page=2", s \o "?page=2">>}

\* crawl_section_deeply(s, max_pages=20) at its entry (section_crawler.py 17-25)
new_task(s) ==
    [section_url |-> s, max_pages |-> 20, pages_to_visit |-> <<s>>,
     visited_pages |-> {}, article_urls |-> {}, page_count |-> 0,
     pc |-> "running"]

\* the union of the URL sets of the section crawls
CrawledSoFar == UNION {tasks[t].article_urls : t \in DOMAIN tasks}

\* section_crawler.py 26
task_goes_on(task) ==
    task.pages_to_visit # <<>> /\ task.page_count < task.max_pages

\* lines 33-45 up to the gather: all_article_urls holds the RSS URLs, fewer
\* than max_articles (line 38), and one crawl is started per section
GatherInit ==
    /\ gather_max_articles \in GatherMaxArticles
    /\ \E rss_urls \in try_rss_feeds :
          /\ Cardinality(Range(rss_urls)) < gather_max_articles
          /\ gather_all_article_urls = Range(rss_urls)
    /\ \E n \in 0..MaxTasks : top_sections = SubSeq(GatherSections, 1, n)
    /\ tasks = [t \in 1..Len(top_sections) |-> new_task(top_sections[t])]
    /\ gather_pc = "gather"
    /\ task_loads = <<>>

GatherIdle ==
    /\ gather_max_articles = 1
    /\ gather_all_article_urls = {}
    /\ top_sections = <<>>
    /\ tasks = <<>>
    /\ gather_pc = "idle"
    /\ task_loads = <<>>

\* section_crawler.py 27-30 in task t
TaskSkipVisited(t) ==
    /\ gather_pc = "gather"
    /\ tasks[t].pc = "running"
    /\ task_goes_on(tasks[t])
    /\ in_visited_pages(Head(tasks[t].pages_to_visit), tasks[t].visited_pages)
    /\ tasks' = [tasks EXCEPT ![t].pages_to_visit = Tail(@)]
    /\ UNCHANGED <<gather_max_articles, gather_all_article_urls, top_sections,
                   gather_pc, task_loads>>
    /\ UNCHANGED nonGatherVars

\* section_crawler.py 27-61 in task t: one page is loaded
TaskLoad(t, links, next_links) ==
    /\ gather_pc = "gather"
    /\ tasks[t].pc = "running"
    /\ task_goes_on(tasks[t])
    /\ ~in_visited_pages(Head(tasks[t].pages_to_visit), tasks[t].visited_pages)
    /\ LET task == tasks[t]
           current_url == Head(task.pages_to_visit)
           visited == task.visited_pages \cup {current_url}
           articles == task.article_urls \cup found_articles(links)
       IN  /\ task_loads' = Append(task_loads, <<t, current_url>>)
           /\ tasks' = [tasks EXCEPT ![t] =
                 [task EXCEPT
                    !.visited_pages = visited,
                    !.page_count = @ + 1,
                    !.article_urls = articles,
                    !.pages_to_visit =
                        IF Cardinality(articles) >= 100 THEN Tail(@)
                        ELSE queued_links(Tail(@), next_links, visited),
                    !.pc = IF Cardinality(articles) >= 100
                           THEN "returned" ELSE "running"]]
    /\ UNCHANGED <<gather_max_articles, gather_all_article_urls, top_sections,
                   gather_pc>>
    /\ UNCHANGED nonGatherVars

\* section_crawler.py 35-51, 63-64 in task t: the try block raises
TaskLoadFails(t, links) ==
    /\ gather_pc = "gather"
    /\ tasks[t].pc = "running"
    /\ task_goes_on(tasks[t])
    /\ ~in_visited_pages(Head(tasks[t].pages_to_visit), tasks[t].visited_pages)
    /\ LET task == tasks[t]
           current_url == Head(task.pages_to_visit)
       IN  /\ task_loads' = Append(task_loads, <<t, current_url>>)
           /\ tasks' = [tasks EXCEPT ![t] =
                 [task EXCEPT
                    !.visited_pages = @ \cup {current_url},
                    !.page_count = @ + 1,
                    !.article_urls = @ \cup found_articles(links),
                    !.pages_to_visit = Tail(@)]]
    /\ UNCHANGED <<gather_max_articles, gather_all_article_urls, top_sections,
                   gather_pc>>
    /\ UNCHANGED nonGatherVars

\* section_crawler.py 26, 66-68 in task t: the loop ends, the set is returned
TaskReturn(t) ==
    /\ gather_pc = "gather"
    /\ tasks[t].pc = "running"
    /\ ~task_goes_on(tasks[t])
    /\ tasks' = [tasks EXCEPT ![t].pc = "returned"]
    /\ UNCHANGED <<gather_max_articles, gather_all_article_urls, top_sections,
                   gather_pc, task_loads>>
    /\ UNCHANGED nonGatherVars

\* deep_scraper.py 45-50: gather returns when every crawl has returned; the
\* sets are merged in section order until max_articles is met
GatherReturns ==
    /\ gather_pc = "gather"
    /\ \A t \in DOMAIN tasks : tasks[t].pc = "returned"
    /\ gather_all_article_urls' =
          merge_results(gather_all_article_urls,
                        [t \in DOMAIN tasks |-> tasks[t].article_urls],
                        gather_max_articles)
    /\ gather_pc' = "merged"
    /\ UNCHANGED <<gather_max_articles, top_sections, tasks, task_loads>>
    /\ UNCHANGED nonGatherVars

GatherNext ==
    \/ \E t \in DOMAIN tasks : TaskSkipVisited(t)
    \/ \E t \in DOMAIN tasks, links \in TaskLinks :
          \E next_links \in TaskPagination(top_sections[t]) :
              TaskLoad(t, links, next_links)
    \/ \E t \in DOMAIN tasks, links \in TaskLinks : TaskLoadFails(t, links)
    \/ \E t \in DOMAIN tasks : TaskReturn(t)
    \/ GatherReturns

\* C21: in the parallel section phase of run_deep_intelligence, once the
\* union of the article URLs of the section crawls has met max_articles no
\* section crawl loads a further page.
C21_NoLoadAfterUnionMeetsTarget ==
    [][task_loads' # task_loads =>
          Cardinality(CrawledSoFar) < gather_max_articles]_vars

(***************************************************************************)
(* The order of the stages: deep_scraper.py run_deep_intelligence and       *)
(* dashboard.py unified_scraping_pipeline                                   *)
(***************************************************************************)

\* the URLs URL discovery may find
MaxFound == 3

Pipelines ==
    {[fn |-> "run_deep_intelligence", profiles |-> TRUE, google |-> g] :
        g \in BOOLEAN}
    \cup {[fn |-> "unified_scraping_pipeline", profiles |-> p, google |-> g] :
             p, g \in BOOLEAN}

\* the dict of an author without any field
empty_details == [profile_url |-> NoneStr, twitter |-> NoneStr]

\* what scrape_author_details finds on a profile page, profile_url added
PageDetails ==
    {[profile_url |-> "https://example.com/author/x", twitter |-> tw] :
        tw \in {NoneStr, "@page"}}

\* "await asyncio.gather(*tasks)" returns when every task has ended
all_done_not_awaited(states) == TRUE
all_done(states) ==
    \A k \in DOMAIN states : states[k] \notin {"pending", "waiting", "running"}

\* the pc of every get_profile task
task_pcs == [a \in DOMAIN profile_tasks |-> profile_tasks[a].pc]

\* deep_scraper.py 91-108, dashboard.py 192-200: the fields of the search
\* results are written over those of the profile pages
merge_search(profiles, found) ==
    [a \in DOMAIN profiles \cup DOMAIN found |->
        LET old == IF a \in DOMAIN profiles THEN profiles[a] ELSE empty_details
        IN  IF a \in DOMAIN found /\ truthy(found[a])
            THEN [old EXCEPT !.twitter = found[a]] ELSE old]

\* the step after the worker pool returned / after the profile pass
runs_profiles(p, authors) ==
    IF p.fn = "run_deep_intelligence" THEN TRUE
    ELSE p.profiles /\ authors # <<>>

runs_google(p, authors) ==
    IF p.fn = "run_deep_intelligence" THEN p.google
    ELSE p.google /\ authors # <<>>

PipelineInit ==
    /\ pipeline \in Pipelines
    /\ pipe_max_articles \in 1..2
    /\ pipe_pc = "discover"
    /\ pipe_urls = <<>>
    /\ pipe_fetch = <<>>
    /\ pipe_articles_data = <<>>
    /\ pipe_unique_authors = <<>>
    /\ profile_tasks = <<>>
    /\ pipe_profiles = <<>>
    /\ pipe_events = <<>>

PipelineIdle ==
    /\ pipeline = None
    /\ pipe_max_articles = 1
    /\ pipe_pc = "idle"
    /\ pipe_urls = <<>>
    /\ pipe_fetch = <<>>
    /\ pipe_articles_data = <<>>
    /\ pipe_unique_authors = <<>>
    /\ profile_tasks = <<>>
    /\ pipe_profiles = <<>>
    /\ pipe_events = <<>>

\* deep_scraper.py 29-54, dashboard.py 124-126: URL discovery returns and
\* the list is cut to max_articles
DiscoveryReturns(n) ==
    /\ pipe_pc = "discover"
    /\ pipe_urls' = take([u \in 1..n |-> NewsUrl(u)], pipe_max_articles)
    /\ pipe_fetch' = [u \in 1..Len(pipe_urls') |-> "pending"]
    /\ pipe_events' = Append(pipe_events, "discovered")
    /\ pipe_pc' = IF pipeline.fn = "unified_scraping_pipeline" /\ pipe_urls' = <<>>
                  THEN "returned_none" ELSE "scrape"
    /\ UNCHANGED <<pipeline, pipe_max_articles, pipe_articles_data,
                   pipe_unique_authors, profile_tasks, pipe_profiles>>
    /\ UNCHANGED nonPipelineVars

\* parallel_scraper.py 24-26 inside scrape_articles_parallel (deep_scraper.py
\* 58, dashboard.py 136): a worker starts its article fetch
FetchStarts(u) ==
    /\ pipe_pc = "scrape"
    /\ pipe_fetch[u] = "pending"
    /\ pipe_fetch' = [pipe_fetch EXCEPT ![u] = "running"]
    /\ pipe_events' = Append(pipe_events, "fetch")
    /\ UNCHANGED <<pipeline, pipe_max_articles, pipe_pc, pipe_urls,
                   pipe_articles_data, pipe_unique_authors, profile_tasks,
                   pipe_profiles>>
    /\ UNCHANGED nonPipelineVars

\* parallel_scraper.py 26-31: the fetch ends with a record or with None
FetchEnds(u, out) ==
    /\ pipe_fetch[u] = "running"
    /\ pipe_fetch' = [pipe_fetch EXCEPT ![u] = out]
    /\ UNCHANGED <<pipeline, pipe_max_articles, pipe_pc, pipe_urls,
                   pipe_articles_data, pipe_unique_authors, profile_tasks,
                   pipe_profiles, pipe_events>>
    /\ UNCHANGED nonPipelineVars

\* the records of the fetches that gave one, in URL order
RECURSIVE fetched_records(_, _)
fetched_records(states, u) ==
    IF u > Len(states) THEN <<>>
    ELSE (IF states[u] \in Authors \cup {"Unknown"}
          THEN <<[author |-> states[u], url |-> NewsUrl(u)]>> ELSE <<>>)
         \o fetched_records(states, u + 1)

\* deep_scraper.py 58-79, dashboard.py 136-169: scrape_articles_parallel
\* returned; unique_authors is built and the profile tasks are made
PoolReturns ==
    /\ pipe_pc = "scrape"
    /\ all_done(pipe_fetch)
    /\ pipe_articles_data' = fetched_records(pipe_fetch, 1)
    /\ pipe_events' = Append(pipe_events, "pool_returned")
    /\ pipe_unique_authors' \in
          Orderings({pipe_articles_data'[k].author :
                        k \in 1..Len(pipe_articles_data')} \ {"Unknown"})
    /\ IF pipeline.fn = "unified_scraping_pipeline" /\ pipe_articles_data' = <<>>
       THEN pipe_pc' = "returned_none" /\ UNCHANGED profile_tasks
       ELSE IF runs_profiles(pipeline, pipe_unique_authors')
       THEN /\ pipe_pc' = "profiles"
            /\ profile_tasks' = [a \in Range(take(pipe_unique_authors', 50)) |->
                                    [pc |-> "waiting", details |-> None]]
       ELSE /\ pipe_pc' = IF runs_google(pipeline, pipe_unique_authors')
                          THEN "google" ELSE "aggregate"
            /\ UNCHANGED profile_tasks
    /\ UNCHANGED <<pipeline, pipe_max_articles, pipe_urls, pipe_fetch,
                   pipe_profiles>>
    /\ UNCHANGED nonPipelineVars

\* deep_scraper.py 64-77, dashboard.py 159-161: a profile task starts
ProfileStarts(a) ==
    /\ pipe_pc = "profiles"
    /\ profile_tasks[a].pc = "waiting"
    /\ Cardinality({b \in DOMAIN profile_tasks :
                       profile_tasks[b].pc = "running"}) < 5
    /\ profile_tasks' = [profile_tasks EXCEPT ![a].pc = "running"]
    /\ UNCHANGED <<pipeline, pipe_max_articles, pipe_pc, pipe_urls, pipe_fetch,
                   pipe_articles_data, pipe_unique_authors, pipe_profiles,
                   pipe_events>>
    /\ UNCHANGED nonPipelineVars

\* deep_scraper.py 65-71, dashboard.py 161-167: the task ends with the
\* details of the profile page or with None
ProfileEnds(a, details) ==
    /\ profile_tasks[a].pc = "running"
    /\ profile_tasks' = [profile_tasks EXCEPT ![a] = [pc |-> "done", details |-> details]]
    /\ UNCHANGED <<pipeline, pipe_max_articles, pipe_pc, pipe_urls, pipe_fetch,
                   pipe_articles_data, pipe_unique_authors, pipe_profiles,
                   pipe_events>>
    /\ UNCHANGED nonPipelineVars

\* deep_scraper.py 80-86, dashboard.py 170-183: the gather of the profile
\* tasks returned and the profile-page details are put into the map
ProfilesMerged ==
    /\ pipe_pc = "profiles"
    /\ all_done(task_pcs)
    /\ LET found == {a \in DOMAIN profile_tasks : profile_tasks[a].details # None}
       IN  pipe_profiles' = [a \in found |-> profile_tasks[a].details]
    /\ pipe_events' = Append(pipe_events, "profile_merge")
    /\ pipe_pc' = IF runs_google(pipeline, pipe_unique_authors)
                  THEN "google" ELSE "aggregate"
    /\ UNCHANGED <<pipeline, pipe_max_articles, pipe_urls, pipe_fetch,
                   pipe_articles_data, pipe_unique_authors, profile_tasks>>
    /\ UNCHANGED nonPipelineVars

\* deep_scraper.py 88-108, dashboard.py 186-202: enrich_journalists_batch
\* returned and its fields are merged into the map
SearchMerged(found) ==
    /\ pipe_pc = "google"
    /\ pipe_profiles' = merge_search(pipe_profiles, found)
    /\ pipe_events' = Append(pipe_events, "search_merge")
    /\ pipe_pc' = "aggregate"
    /\ UNCHANGED <<pipeline, pipe_max_articles, pipe_urls, pipe_fetch,
                   pipe_articles_data, pipe_unique_authors, profile_tasks>>
    /\ UNCHANGED nonPipelineVars

\* deep_scraper.py 112, dashboard.py 209-236: the aggregation starts
AggregationStarts ==
    /\ pipe_pc = "aggregate"
    /\ pipe_events' = Append(pipe_events, "aggregate")
    /\ pipe_pc' = "returned"
    /\ UNCHANGED <<pipeline, pipe_max_articles, pipe_urls, pipe_fetch,
                   pipe_articles_data, pipe_unique_authors, profile_tasks,
                   pipe_profiles>>
    /\ UNCHANGED nonPipelineVars

PipelineNext ==
    \/ \E n \in 0..MaxFound : DiscoveryReturns(n)
    \/ \E u \in DOMAIN pipe_fetch : FetchStarts(u)
    \/ \E u \in DOMAIN pipe_fetch, out \in {"None", "Unknown"} \cup Authors :
          FetchEnds(u, out)
    \/ PoolReturns
    \/ \E a \in DOMAIN profile_tasks : ProfileStarts(a)
    \/ \E a \in DOMAIN profile_tasks, details \in {None} \cup PageDetails :
          ProfileEnds(a, details)
    \/ ProfilesMerged
    \/ \E found \in [Range(take(pipe_unique_authors, 30)) -> {NoneStr, "@search"}] :
          SearchMerged(found)
    \/ AggregationStarts

\* the place of a step in the pipeline
StageRank ==
    [discovered |-> 1, fetch |-> 2, pool_returned |-> 3, profile_merge |-> 4,
     search_merge |-> 5, aggregate |-> 6]

\* C27: data flows strictly downward through the pipeline: no article fetch
\* starts before URL discovery returned its final, cut list, and the
\* aggregation starts only after the worker pool returned and every
\* enrichment merge of the run (the profile-page pass, then the
\* external-search pass) was applied.
C27_StagesRunInOrder ==
    /\ \A j, k \in 1..Len(pipe_events) :
          j < k => StageRank[pipe_events[j]] <= StageRank[pipe_events[k]]
    /\ Range(pipe_events) # {} => pipe_events[1] = "discovered"
    /\ "discovered" \in Range(pipe_events) =>
          /\ Len(pipe_urls) <= pipe_max_articles
          /\ DOMAIN pipe_fetch = DOMAIN pipe_urls
    /\ "aggregate" \in Range(pipe_events) =>
          /\ "pool_returned" \in Range(pipe_events)
          /\ \A u \in DOMAIN pipe_fetch : pipe_fetch[u] # "running"
          /\ \A a \in DOMAIN profile_tasks : profile_tasks[a].pc = "done"
          /\ runs_profiles(pipeline, pipe_unique_authors) =>
                "profile_merge" \in Range(pipe_events)
          /\ runs_google(pipeline, pipe_unique_authors) =>
                "search_merge" \in Range(pipe_events)

\* the aggregation started after two article fetches that overlapped, a
\* profile-page pass that found a page and an external-search pass
C27_Witness ==
    /\ pipe_pc = "returned"
    /\ pipe_events = <<"discovered", "fetch", "fetch", "pool_returned",
                       "profile_merge", "search_merge", "aggregate">>
    /\ \E a \in DOMAIN pipe_profiles : pipe_profiles[a].twitter = "@search"
    /\ \E a \in DOMAIN profile_tasks : profile_tasks[a].details # None

(***************************************************************************)
(* Specifications                                                          *)
(***************************************************************************)

InitPool == ExtractIdle /\ CollectIdle /\ ClassifyIdle /\ AggregateIdle /\ FetchIdle /\ CleanIdle /\ SocialIdle /\ SequentialIdle /\ GatherIdle /\ PipelineIdle /\ PoolInit
SpecPool == InitPool /\ [][PoolNext]_vars
\* the event loop runs every ready task, and every scrape_journalist_info
\* call eventually returns or raises
SpecPoolFair == InitPool /\ [][PoolNext]_vars /\ WF_vars(PoolNext)

InitExtract == PoolIdle /\ CollectIdle /\ ClassifyIdle /\ AggregateIdle /\ FetchIdle /\ CleanIdle /\ SocialIdle /\ SequentialIdle /\ GatherIdle /\ PipelineIdle /\ ExtractInit
SpecExtract == InitExtract /\ [][ExtractNext]_vars

InitCollect == PoolIdle /\ ExtractIdle /\ ClassifyIdle /\ AggregateIdle /\ FetchIdle /\ CleanIdle /\ SocialIdle /\ SequentialIdle /\ GatherIdle /\ PipelineIdle /\ CollectInit
SpecCollect == InitCollect /\ [][CollectNext]_vars

InitClassify == PoolIdle /\ ExtractIdle /\ CollectIdle /\ AggregateIdle /\ FetchIdle /\ CleanIdle /\ SocialIdle /\ SequentialIdle /\ GatherIdle /\ PipelineIdle /\ ClassifyInit
SpecClassify == InitClassify /\ [][ClassifyNext]_vars

InitAggregate == PoolIdle /\ ExtractIdle /\ CollectIdle /\ ClassifyIdle /\ FetchIdle /\ CleanIdle /\ SocialIdle /\ SequentialIdle /\ GatherIdle /\ PipelineIdle /\ AggregateInit
SpecAggregate == InitAggregate /\ [][AggregateNext]_vars

InitFetch == PoolIdle /\ ExtractIdle /\ CollectIdle /\ ClassifyIdle /\ AggregateIdle /\ CleanIdle /\ SocialIdle /\ SequentialIdle /\ GatherIdle /\ PipelineIdle /\ FetchInit
SpecFetch == InitFetch /\ [][FetchNext]_vars

\* the two crawlers, each from its own start: collect_article_urls with a
\* target the crawl meets and one it never meets, and the calls of the
\* browser functions
InitCrawls ==
    \/ InitCollect /\ collect_pc = "api" /\ max_articles \in {2, 200}
    \/ InitFetch
CrawlsNext ==
    \/ \E resp \in Responses : ApiProbe(resp)
    \/ \E resp \in Responses : ApiPaginate(resp)
    \/ ReturnApiUrls
    \/ StartCrawl
    \/ CrawlSkipVisited
    \/ \E links \in LinkLists, completed \in BOOLEAN, next_url \in NextLinks :
          CrawlLoad(links, completed, next_url)
    \/ CrawlFinish
    \/ CrawlTimeout
    \/ FetchNext
SpecCrawls == InitCrawls /\ [][CrawlsNext]_vars

InitClean == PoolIdle /\ ExtractIdle /\ CollectIdle /\ ClassifyIdle /\ AggregateIdle /\ FetchIdle /\ SocialIdle /\ SequentialIdle /\ GatherIdle /\ PipelineIdle /\ CleanInit
SpecClean == InitClean /\ [][CleanNext]_vars

InitSocial == PoolIdle /\ ExtractIdle /\ CollectIdle /\ ClassifyIdle /\ AggregateIdle /\ FetchIdle /\ CleanIdle /\ SequentialIdle /\ GatherIdle /\ PipelineIdle /\ SocialInit
SpecSocial == InitSocial /\ [][SocialNext]_vars

InitSequential == PoolIdle /\ ExtractIdle /\ CollectIdle /\ ClassifyIdle /\ AggregateIdle /\ FetchIdle /\ CleanIdle /\ SocialIdle /\ GatherIdle /\ PipelineIdle /\ SequentialInit
SpecSequential == InitSequential /\ [][SequentialNext]_vars

InitGather == PoolIdle /\ ExtractIdle /\ CollectIdle /\ ClassifyIdle /\ AggregateIdle /\ FetchIdle /\ CleanIdle /\ SocialIdle /\ SequentialIdle /\ PipelineIdle /\ GatherInit
SpecGather == InitGather /\ [][GatherNext]_vars

InitPipeline == PoolIdle /\ ExtractIdle /\ CollectIdle /\ ClassifyIdle /\ AggregateIdle /\ FetchIdle /\ CleanIdle /\ SocialIdle /\ SequentialIdle /\ GatherIdle /\ PipelineInit
SpecPipeline == InitPipeline /\ [][PipelineNext]_vars

Init == InitPool \/ InitExtract \/ InitCollect \/ InitClassify \/ InitAggregate \/ InitFetch \/ InitClean \/ InitSocial \/ InitSequential \/ InitGather \/ InitPipeline

Next == PoolNext \/ ExtractNext \/ CollectNext \/ ClassifyNext \/ AggregateNext \/ FetchNext \/ CleanNext \/ SocialNext \/ SequentialNext \/ GatherNext \/ PipelineNext

Spec == Init /\ [][Next]_vars

====
